---- MODULE Spec2Model ----
(***************************************************************************)
(* Model of the Honolulu agent runtime: the conversation loop Agent.run    *)
(* (agent.py), the confirmation channel of the websocket endpoint          *)
(* (server/app.py), the permission controller (permissions.py), the tool   *)
(* manager (tools/base.py) and the model router (models/router.py).        *)
(***************************************************************************)
EXTENDS Integers, Sequences, FiniteSets, TLC

VARIABLES
    config,                 \* PermissionConfig held by the server (config.permissions)
    max_iterations,         \* Agent.max_iterations
    messages,               \* Agent.messages
    auto_allowed_tools,     \* Agent.auto_allowed_tools
    confirm_callback,       \* Agent.confirm_callback is set (TRUE) or None (FALSE)
    pending_confirmations,  \* Session.pending_confirmations: tool_call_id -> future state
    conn,                   \* task -> it is a websocket handler in its receive loop
    loop,                   \* task -> local state of its Agent.run coroutine
    nextId,                 \* next tool_call id the model hands out
    runs,                   \* number of calls of Agent.run so far
    events,                 \* task -> AgentEvents yielded by its current run
    executed,               \* tool calls passed to ToolManager.execute
    gate_queried,           \* tool_call ids passed to check_tool_permission
    approved,               \* tool_call ids whose confirmation callback returned True
    strategy,               \* ModelRouter.strategy
    default_model,          \* ModelRouter.default_model
    models,                 \* ModelRouter.models, in insertion order
    rules,                  \* ModelRouter.rules
    fallback_order,         \* ModelRouter.fallback_order
    usage_counts,           \* ModelRouter._usage_counts
    providers,              \* number of provider objects constructed so far
    healthy,                \* the provider objects whose call() returns
    call,                   \* local state of the call_with_fallback coroutine
    router_calls,           \* number of calls of call_with_fallback so far
    links,                  \* the file system: symbolic link -> the path it points to
    decisions,              \* the calls of check_tool_permission and what they returned
    sub,                    \* local state of SubAgent._run_agent_loop
    sub_events,             \* the calls of on_sub_agent_event
    returned,               \* the SubAgentResults and exceptions that reached DelegationTool.execute
    inbox,                  \* connection -> the frames the client sent that receive_json has not returned yet
    cancelled_run,          \* the run in flight when the last cancel frame was handled, 0 for none
    allowed_all,            \* tool_call ids resolved by a confirm_response with action allow_all
    decided,                \* tool_call ids for which a decision was sent during the wait, before the timeout
    sessions,               \* session_id -> Session of the server's sessions dict
    heap,                   \* dict object -> its entries (tool_call id -> future), for the pending_confirmations dicts
    acted,                  \* the session_id the last request or handler step was for, "none" at the start
    selections,             \* the calls of ModelRouter.select so far: the tables it saw and what it returned
    handles,                \* session.pending_confirmations as a dict of future objects: tool_call id -> future
    futures,                \* the futures confirmation_callback has created, each with its state
    waits                   \* task -> the wait of confirmation_callback its run is suspended in

agentVars == <<config, max_iterations, messages, auto_allowed_tools, confirm_callback,
               pending_confirmations, conn, loop, nextId, runs, events, executed,
               gate_queried, approved>>

routerVars == <<strategy, default_model, models, rules, fallback_order, usage_counts,
                providers, healthy, call, router_calls>>

gateVars == <<links, decisions>>

nestedVars == <<sub, sub_events, returned>>

channelVars == <<inbox, cancelled_run, allowed_all, decided>>

sessionVars == <<sessions, heap, acted>>

selectVars == <<selections>>

handleVars == <<handles, futures, waits>>

\* what the operations of the agent loop and its channel leave alone
besideAgent == <<routerVars, gateVars, nestedVars, channelVars, sessionVars, selectVars, handleVars>>

\* what the futures of the confirmation callback leave alone
besideHandle == <<routerVars, gateVars, nestedVars, channelVars, sessionVars, selectVars>>

\* what the operations of the router leave alone
besideRouter == <<agentVars, gateVars, nestedVars, channelVars, sessionVars, selectVars, handleVars>>

\* what the gate and the commands beside it leave alone
besideGate == <<agentVars, routerVars, nestedVars, channelVars, sessionVars, selectVars, handleVars>>

\* what a delegation leaves alone
besideNested == <<routerVars, gateVars, channelVars, sessionVars, selectVars, handleVars>>

\* what the websocket handlers and their clients leave alone
besideChannel == <<routerVars, gateVars, nestedVars, sessionVars, selectVars, handleVars>>

\* what the operations on a session leave alone, the agent of the single-session
\* specifications apart
besideSessions == <<routerVars, gateVars, nestedVars, channelVars, selectVars, handleVars>>

\* what a call of select leaves alone, the router's tables apart
besideSelect == <<agentVars, gateVars, nestedVars, channelVars, sessionVars, handleVars>>

vars == <<agentVars, routerVars, gateVars, nestedVars, channelVars, sessionVars, selectVars, handleVars>>

----------------------------------------------------------------------------
(* Bounds of the model *)

MaxIter == 2

MaxToolCalls == 2

MaxRuns == 2

\* granularity of the clock that runs while a confirmation is awaited
ClockStep == 150

\* provider objects constructed and registered with the router
MaxRegistrations == 2

MaxRules == 1

\* calls of ModelRouter.call_with_fallback
MaxCalls == 1

\* calls of check_tool_permission that are recorded
MaxDecisions == 2

\* frames a client has sent that its handler has not received yet
MaxInbox == 1

\* user messages a client sends over a websocket
MaxMessages == 1

\* model calls of the agent of one session; the last one answers with text
MaxTurns == 2

\* routing rules of the router whose select is called
MaxSelectRules == 2

\* calls of ModelRouter.select
MaxSelections == 1

(* Program constants *)

\* asyncio.wait_for(future, timeout=300.0)
ConfirmTimeout == 300

\* CoderAgent.execute: max_iterations=15
CoderMaxIterations == 15

Tasks == {"t1", "t2"}

\* the tasks that call Agent.run; the others only connect and send decisions
Runners == {"t1"}

Ids == 1..MaxToolCalls

----------------------------------------------------------------------------
(* tools/*.py: the registry of built-in tools and their static flag *)

RegisteredTools == {"file_read", "file_write", "bash_exec"}

ToolFlag(name) ==
    CASE name = "file_read"  -> FALSE
      [] name = "file_write" -> TRUE
      [] name = "bash_exec"  -> TRUE
      [] OTHER               -> FALSE

\* ToolManager.requires_confirmation
ToolManagerRequiresConfirmation(name) ==
    IF name \in RegisteredTools THEN ToolFlag(name) ELSE FALSE

----------------------------------------------------------------------------
(* helpers on lists *)

SeqRange(s) == { s[i] : i \in 1..Len(s) }

\* the first element of sequence s that is one of good
FirstIn(s, good) ==
    s[CHOOSE i \in 1..Len(s) : s[i] \in good /\ \A j \in 1..(i - 1) : s[j] \notin good]

----------------------------------------------------------------------------
(* permissions.py *)

Modes == {"auto", "interactive", "strict"}

\* the strings of the model
Strings ==
    {"ls -la", "sudo rm -rf /", "rm -rf /", "rm -rf /tmp/x", "mkfs.ext4 /dev/sda", " sudo reboot",
     "SUDO reboot", "python link.py", "sudo", "chmod 777", " sudo", "git",
     "ls", "cat", "python", "rm", "-rf", "/",
     "mkfs.", ":(){:|:&};:", ">", "/dev/sd", "dd", "of=/dev/",
     "/tmp/x/git push", "cat a >/dev/sda", ""}

\* the characters of the strings of the model
Text(s) ==
    CASE s = "ls -la" -> <<"l", "s", " ", "-", "l", "a">>
      [] s = "sudo rm -rf /" -> <<"s", "u", "d", "o", " ", "r", "m", " ", "-", "r", "f", " ", "/">>
      [] s = "rm -rf /" -> <<"r", "m", " ", "-", "r", "f", " ", "/">>
      [] s = "rm -rf /tmp/x" -> <<"r", "m", " ", "-", "r", "f", " ", "/", "t", "m", "p", "/", "x">>
      [] s = "mkfs.ext4 /dev/sda" -> <<"m", "k", "f", "s", ".", "e", "x", "t", "4", " ", "/", "d", "e", "v", "/", "s", "d", "a">>
      [] s = " sudo reboot" -> <<" ", "s", "u", "d", "o", " ", "r", "e", "b", "o", "o", "t">>
      [] s = "SUDO reboot" -> <<"S", "U", "D", "O", " ", "r", "e", "b", "o", "o", "t">>
      [] s = "python link.py" -> <<"p", "y", "t", "h", "o", "n", " ", "l", "i", "n", "k", ".", "p", "y">>
      [] s = "sudo" -> <<"s", "u", "d", "o">>
      [] s = "chmod 777" -> <<"c", "h", "m", "o", "d", " ", "7", "7", "7">>
      [] s = " sudo" -> <<" ", "s", "u", "d", "o">>
      [] s = "git" -> <<"g", "i", "t">>
      [] s = "ls" -> <<"l", "s">>
      [] s = "cat" -> <<"c", "a", "t">>
      [] s = "python" -> <<"p", "y", "t", "h", "o", "n">>
      [] s = "rm" -> <<"r", "m">>
      [] s = "-rf" -> <<"-", "r", "f">>
      [] s = "/" -> <<"/">>
      [] s = "mkfs." -> <<"m", "k", "f", "s", ".">>
      [] s = ":(){:|:&};:" -> <<":", "(", ")", "{", ":", "|", ":", "&", "}", ";", ":">>
      [] s = ">" -> <<">">>
      [] s = "/dev/sd" -> <<"/", "d", "e", "v", "/", "s", "d">>
      [] s = "dd" -> <<"d", "d">>
      [] s = "of=/dev/" -> <<"o", "f", "=", "/", "d", "e", "v", "/">>
      [] s = "/tmp/x/git push" -> <<"/", "t", "m", "p", "/", "x", "/", "g", "i", "t", " ", "p", "u", "s", "h">>
      [] s = "cat a >/dev/sda" -> <<"c", "a", "t", " ", "a", " ", ">", "/", "d", "e", "v", "/", "s", "d", "a">>
      [] s = "" -> <<>>

Upper ==
    <<"A", "B", "C", "D", "E", "F", "G", "H", "I", "J", "K", "L", "M", "N", "O", "P", "Q", "R", "S", "T", "U", "V", "W", "X", "Y", "Z">>

Lower ==
    <<"a", "b", "c", "d", "e", "f", "g", "h", "i", "j", "k", "l", "m", "n", "o", "p", "q", "r", "s", "t", "u", "v", "w", "x", "y", "z">>

\* [A-Za-z0-9_], the class \w
WordChars ==
    {"a", "b", "c", "d", "e", "f", "g", "h", "i", "j", "k", "l", "m", "n", "o", "p", "q", "r", "s", "t", "u", "v", "w", "x", "y", "z", "A", "B", "C", "D", "E", "F", "G", "H", "I", "J", "K", "L", "M", "N", "O", "P", "Q", "R", "S", "T", "U", "V", "W", "X", "Y", "Z", "0", "1", "2", "3", "4", "5", "6", "7", "8", "9", "_"}

\* the class \s and the characters str.strip() and str.split() remove
IsSpace(c) == c = " "

\* str.lower()
lower(s) ==
    [i \in 1..Len(s) |->
        IF \E k \in 1..Len(Upper) : Upper[k] = s[i]
        THEN Lower[CHOOSE k \in 1..Len(Upper) : Upper[k] = s[i]]
        ELSE s[i]]

\* the first position from i on that holds no whitespace
SkipSpaces(s, i) ==
    CHOOSE j \in i..(Len(s) + 1) :
        /\ \A k \in i..(j - 1) : IsSpace(s[k])
        /\ j = Len(s) + 1 \/ ~IsSpace(s[j])

\* the first position from i on that holds whitespace
SkipWord(s, i) ==
    CHOOSE j \in i..(Len(s) + 1) :
        /\ \A k \in i..(j - 1) : ~IsSpace(s[k])
        /\ j = Len(s) + 1 \/ IsSpace(s[j])

\* str.strip()
strip(s) ==
    IF \A i \in 1..Len(s) : IsSpace(s[i]) THEN <<>>
    ELSE SubSeq(s, SkipSpaces(s, 1),
                CHOOSE j \in 1..Len(s) : ~IsSpace(s[j]) /\ \A k \in (j + 1)..Len(s) : IsSpace(s[k]))

\* s holds p from position i on
StartsAt(s, p, i) ==
    /\ i >= 1
    /\ i + Len(p) - 1 <= Len(s)
    /\ SubSeq(s, i, i + Len(p) - 1) = p

\* p in s
IsSubstring(p, s) == \E i \in 1..(Len(s) + 1) : StartsAt(s, p, i)

\* s.endswith(p)
EndsWith(s, p) == Len(p) <= Len(s) /\ StartsAt(s, p, Len(s) - Len(p) + 1)

\* command.lower().strip(), worked out once for every string of the model
CommandLowerOf == [c \in Strings |-> strip(lower(Text(c)))]

CommandLower(command) == CommandLowerOf[command]

\* fnmatch.fnmatch(path_str, expanded_pattern) on the paths of the model
FnMatch(path, pattern) ==
    <<path, pattern>> \in { <<"/tmp/a", "/tmp/**">>,
                            <<"/home/u/projects/b", "/home/u/projects/**">>,
                            <<"/home/u/.ssh/id", "/home/u/.ssh/**">>,
                            <<"/home/u/.ssh/id", "/home/u/**">>,
                            <<"/home/u/projects/b", "/home/u/**">> }

\* the strings b with b.lower() in command_lower, for every command of the model
BlockedIn ==
    [c \in Strings |-> { b \in Strings : IsSubstring(lower(Text(b)), CommandLowerOf[c]) }]

\* blocked.lower() in command_lower
Contains(command, blocked) == blocked \in BlockedIn[command]

\* rm\s+-rf\s+/(?!\w)
RmRfRoot(s) ==
    \E i \in 1..Len(s) :
        /\ StartsAt(s, Text("rm"), i)
        /\ i + 2 <= Len(s) /\ IsSpace(s[i + 2])
        /\ LET j == SkipSpaces(s, i + 2)
           IN /\ StartsAt(s, Text("-rf"), j)
              /\ j + 3 <= Len(s) /\ IsSpace(s[j + 3])
              /\ LET k == SkipSpaces(s, j + 3)
                 IN /\ StartsAt(s, Text("/"), k)
                    /\ k + 1 > Len(s) \/ s[k + 1] \notin WordChars

\* >\s*/dev/sd[a-z]
WriteToDisk(s) ==
    \E i \in 1..Len(s) :
        /\ StartsAt(s, Text(">"), i)
        /\ LET j == SkipSpaces(s, i + 1)
           IN /\ StartsAt(s, Text("/dev/sd"), j)
              /\ j + 7 <= Len(s) /\ s[j + 7] \in SeqRange(Lower)

\* dd\s+.*of=/dev/
DdToDevice(s) ==
    \E i \in 1..Len(s) :
        /\ StartsAt(s, Text("dd"), i)
        /\ i + 2 <= Len(s) /\ IsSpace(s[i + 2])
        /\ \E m \in (i + 3)..Len(s) : StartsAt(s, Text("of=/dev/"), m)

\* the commands of the model one of dangerous_patterns is found in
Dangerous ==
    { c \in Strings :
        LET s == CommandLowerOf[c]
        IN \/ RmRfRoot(s)
           \/ IsSubstring(Text(":(){:|:&};:"), s)
           \/ WriteToDisk(s)
           \/ IsSubstring(Text("mkfs."), s)
           \/ DdToDevice(s) }

\* re.search(pattern, command_lower) for one of dangerous_patterns
MatchesDangerous(command) == command \in Dangerous

\* command.split()[0] for every command of the model, the empty text when
\* command.split() is empty
FirstWordOf ==
    [c \in Strings |->
        LET s == Text(c)
            i == SkipSpaces(s, 1)
        IN IF i > Len(s) THEN <<>> ELSE SubSeq(s, i, SkipWord(s, i) - 1)]

FirstWord(command) == FirstWordOf[command]

\* the entries a with first_word == a or first_word.endswith(f"/{a}")
AllowedFor ==
    [c \in Strings |->
        { a \in Strings : \/ FirstWordOf[c] = Text(a)
                          \/ EndsWith(FirstWordOf[c], Text("/") \o Text(a)) }]

\* first_word == allowed or first_word.endswith(f"/{allowed}")
StartsWithAllowed(command, allowed) == allowed \in AllowedFor[command]

\* the symbolic links of the file system: the path a link points to, "none"
\* for a path that is no link
NoLinks == [p \in {"/tmp/a"} |-> "none"]

\* mutant: the path is matched as it was passed
Unresolved(path) == path

\* Path(path).expanduser().resolve() on the absolute paths of the model
resolve(path) ==
    IF path \in DOMAIN links /\ links[path] # "none" THEN links[path] ELSE path

\* the tuple (allowed, reason); pattern is the entry the reason is formatted with
Verdict(ok, why, entry) == [allowed |-> ok, reason |-> why, pattern |-> entry]

\* mutant: the allow-list is consulted before the blocked patterns
is_path_allowed_list_first(cfg, path) ==
    LET path_str == resolve(path)
        hits == { p \in SeqRange(cfg.blocked_paths) : FnMatch(path_str, p) }
    IN IF cfg.allowed_paths # <<>>
            /\ \E p \in SeqRange(cfg.allowed_paths) : FnMatch(path_str, p)
       THEN Verdict(TRUE, "none", "none")
       ELSE IF hits # {}
            THEN Verdict(FALSE, "Path matches blocked pattern",
                         FirstIn(cfg.blocked_paths, hits))
            ELSE IF cfg.allowed_paths # <<>>
                 THEN Verdict(FALSE, "Path not in allowed paths list", "none")
                 ELSE Verdict(TRUE, "none", "none")

is_path_allowed(cfg, path) ==
    LET path_str == resolve(path)
        hits == { p \in SeqRange(cfg.blocked_paths) : FnMatch(path_str, p) }
    IN IF hits # {}
       THEN Verdict(FALSE, "Path matches blocked pattern", FirstIn(cfg.blocked_paths, hits))
       ELSE IF cfg.allowed_paths # <<>>
            THEN IF \E p \in SeqRange(cfg.allowed_paths) : FnMatch(path_str, p)
                 THEN Verdict(TRUE, "none", "none")
                 ELSE Verdict(FALSE, "Path not in allowed paths list", "none")
            ELSE Verdict(TRUE, "none", "none")

is_command_allowed(cfg, command) ==
    LET hits == { b \in SeqRange(cfg.blocked_commands) : Contains(command, b) }
    IN IF hits # {}
       THEN Verdict(FALSE, "Command contains blocked pattern",
                    FirstIn(cfg.blocked_commands, hits))
       ELSE IF MatchesDangerous(command)
            THEN Verdict(FALSE, "Command matches dangerous pattern", "none")
            ELSE IF cfg.allowed_commands # <<>>
                 THEN IF FirstWord(command) # <<>>
                         /\ \E a \in SeqRange(cfg.allowed_commands) :
                                StartsWithAllowed(command, a)
                      THEN Verdict(TRUE, "none", "none")
                      ELSE Verdict(FALSE, "Command not in allowed commands list", "none")
                 ELSE Verdict(TRUE, "none", "none")

check_tool_permission(cfg, tool_name, arg) ==
    IF cfg.mode = "auto" THEN Verdict(TRUE, "none", "none")
    ELSE IF tool_name \in {"file_read", "file_write", "file_list"}
              /\ ~is_path_allowed(cfg, arg).allowed
         THEN is_path_allowed(cfg, arg)
         ELSE IF tool_name = "bash_exec" /\ ~is_command_allowed(cfg, arg).allowed
              THEN is_command_allowed(cfg, arg)
              ELSE Verdict(TRUE, "none", "none")

\* PermissionController.requires_confirmation
PermissionRequiresConfirmation(cfg, tool_name) ==
    IF cfg.mode = "auto" THEN FALSE
    ELSE IF cfg.mode = "strict" THEN TRUE
    ELSE tool_name \in {"file_write", "bash_exec", "mcp_call"}

\* get_default_config(): the lists of the default PermissionConfig
DefaultConfig(mode) ==
    [ mode             |-> mode,
      allowed_paths    |-> <<"/home/u/projects/**", "/tmp/**">>,
      blocked_paths    |-> <<"/home/u/.ssh/**", "/home/u/.aws/**">>,
      allowed_commands |-> <<"git", "ls", "cat", "python">>,
      blocked_commands |-> <<"rm -rf /", "sudo", "chmod 777">> ]

----------------------------------------------------------------------------
(* agent.py: messages and events *)

Message(role, content, tool_calls, tool_call_id) ==
    [role |-> role, content |-> content, tool_calls |-> tool_calls,
     tool_call_id |-> tool_call_id]

UserMessage == Message("user", "text", <<>>, 0)

AssistantMessage(calls) ==
    Message("assistant", IF calls = <<>> THEN "text" ELSE "none", calls, 0)

ToolMessage(id, content) == Message("tool", content, <<>>, id)

Event(type, id, tool_name, content) ==
    [type |-> type, id |-> id, tool_name |-> tool_name, content |-> content]

\* what the model may ask for: (tool name, path or command argument)
Invocations ==
    { [name |-> "file_read",  arg |-> "/home/u/.ssh/id"],
      [name |-> "file_write", arg |-> "/tmp/a"],
      [name |-> "bash_exec",  arg |-> "sudo rm -rf /"] }

ToolCall(id, inv) == [id |-> id, name |-> inv.name, arg |-> inv.arg]

\* the tool_calls of one ModelResponse; the model numbers its calls from nextId
Responses(first) ==
    {<<>>}
    \cup { <<ToolCall(first, a)>> : a \in { i \in Invocations : first <= MaxToolCalls } }
    \cup { <<ToolCall(first, a), ToolCall(first + 1, b)>> :
             <<a, b>> \in { p \in Invocations \X Invocations : first + 1 <= MaxToolCalls } }

IdleLoop ==
    [pc |-> "idle", iteration |-> 0, calls |-> <<>>, idx |-> 0, elapsed |-> 0,
     waited |-> "none", outcome |-> "none", model_calls |-> 0, all_tools |-> TRUE]

----------------------------------------------------------------------------
(* models/router.py: task analysis *)

\* what TaskAnalyzer.analyze reads off a message: the keyword lists it
\* contains a word of, its number of words, and whether it mentions an image
Messages ==
    { [code_kw |-> TRUE,  reasoning_kw |-> FALSE, simple_kw |-> TRUE,
       word_count |-> 8,  image |-> FALSE],
      [code_kw |-> FALSE, reasoning_kw |-> FALSE, simple_kw |-> TRUE,
       word_count |-> 5,  image |-> FALSE],
      [code_kw |-> FALSE, reasoning_kw |-> FALSE, simple_kw |-> FALSE,
       word_count |-> 30, image |-> TRUE] }

task_type(message) ==
    IF message.code_kw THEN "code"
    ELSE IF message.reasoning_kw THEN "reasoning"
    ELSE IF message.simple_kw THEN "simple"
    ELSE "general"

complexity(message) ==
    IF message.word_count < 20 /\ task_type(message) = "simple" THEN "simple"
    ELSE IF message.word_count > 100 \/ task_type(message) \in {"code", "reasoning"}
         THEN "complex"
    ELSE "medium"

analyze(message) ==
    [type            |-> task_type(message),
     complexity      |-> complexity(message),
     requires_vision |-> message.image,
     word_count      |-> message.word_count]

----------------------------------------------------------------------------
(* models/router.py: the router's tables *)

Strategies ==
    {"cost-optimized", "quality-first", "capability-match", "load-balance", "smart"}

ModelInfo(name, provider, pricing_input, pricing_output, capabilities, priority) ==
    [name |-> name, provider |-> provider, pricing_input |-> pricing_input,
     pricing_output |-> pricing_output, capabilities |-> capabilities,
     priority |-> priority]

RoutingRule(condition, model_name, priority) ==
    [condition |-> condition, model_name |-> model_name, priority |-> priority]

\* the entries of config["providers"] that create_router_from_config may read
ProviderConfigs ==
    { [name |-> "m1", input |-> 1, output |-> 1,
       features |-> {"function_calling"}, priority |-> 1],
      [name |-> "m2", input |-> 3, output |-> 3,
       features |-> {"vision", "code", "function_calling"}, priority |-> 3],
      [name |-> "m3", input |-> 2, output |-> 2,
       features |-> {"vision"}, priority |-> 2] }

\* the entries of config["rules"]; no provider is ever named m9
RuleConfigs ==
    { RoutingRule("task.type == 'code'", "m2", 1),
      RoutingRule("task.requires_vision == true", "m3", 2),
      RoutingRule("task.complexity == 'simple'", "m9", 0) }

\* the values of config["fallback"]
FallbackOrders ==
    { <<"m3", "m1">>, <<"m2", "m2", "m3">>, <<"m9", "m1", "m2">> }

Names(ms) == [i \in 1..Len(ms) |-> ms[i].name]

\* name in self.models
Has(ms, name) == \E i \in 1..Len(ms) : ms[i].name = name

\* self.models[name]
InfoOf(ms, name) == ms[CHOOSE i \in 1..Len(ms) : ms[i].name = name]

\* self.models[info.name] = info: a new key goes last, a known key keeps its place
DictPut(ms, info) ==
    IF Has(ms, info.name)
    THEN [i \in 1..Len(ms) |-> IF ms[i].name = info.name THEN info ELSE ms[i]]
    ELSE Append(ms, info)

\* mutant: the rules stay in the order they were added
AppendUnsorted(sorted, r) == Append(sorted, r)

\* list.sort(key=priority, reverse=True) is stable: a rule goes behind the rules
\* of the same or a higher priority that stood before it
InsertSorted(sorted, r) ==
    LET k == Cardinality({ i \in 1..Len(sorted) : sorted[i].priority >= r.priority })
    IN  SubSeq(sorted, 1, k) \o <<r>> \o SubSeq(sorted, k + 1, Len(sorted))

RECURSIVE SortedByPriority(_)
SortedByPriority(s) ==
    IF s = <<>> THEN <<>>
    ELSE InsertSorted(SortedByPriority(SubSeq(s, 1, Len(s) - 1)), s[Len(s)])

----------------------------------------------------------------------------
(* models/router.py: selection *)

\* re.match(r"task\.(\w+)\s*==\s*['\"]?(\w+)['\"]?", condition)
ParseCondition(condition) ==
    CASE condition = "task.type == 'code'" ->
             [matched |-> TRUE, key |-> "type", value |-> "code"]
      [] condition = "task.requires_vision == true" ->
             [matched |-> TRUE, key |-> "requires_vision", value |-> "true"]
      [] condition = "task.complexity == 'simple'" ->
             [matched |-> TRUE, key |-> "complexity", value |-> "simple"]
      [] OTHER -> [matched |-> FALSE, key |-> "", value |-> ""]

\* str(task.get(key)).lower()
TaskText(task, key) ==
    CASE key = "type" -> task.type
      [] key = "complexity" -> task.complexity
      [] key = "requires_vision" -> IF task.requires_vision THEN "true" ELSE "false"
      [] OTHER -> "none"

evaluate_rule(condition, task) ==
    LET m == ParseCondition(condition)
    IN  IF ~m.matched THEN FALSE
        ELSE IF m.value = "true" THEN m.key = "requires_vision" /\ task.requires_vision
        ELSE IF m.value = "false" THEN m.key = "requires_vision" /\ ~task.requires_vision
        ELSE TaskText(task, m.key) = m.value

DefaultOrEmpty == IF default_model = "none" THEN "" ELSE default_model

filter_capable(task) ==
    LET required_caps == IF task.requires_vision THEN {"vision"} ELSE {}
    IN  IF required_caps = {} THEN Names(models)
        ELSE Names(SelectSeq(models, LAMBDA info : required_caps \subseteq info.capabilities))

Candidates(task) ==
    IF filter_capable(task) = <<>> THEN Names(models) ELSE filter_capable(task)

Cost(name) == InfoOf(models, name).pricing_input + InfoOf(models, name).pricing_output

\* sorted(candidates, key=cost)[0]: the first candidate of the lowest cost
select_cheapest(task) ==
    IF Candidates(task) = <<>> THEN DefaultOrEmpty
    ELSE FirstIn(Candidates(task),
                 { n \in SeqRange(Candidates(task)) :
                     \A o \in SeqRange(Candidates(task)) : Cost(n) <= Cost(o) })

\* sorted(candidates, key=priority, reverse=True)[0]: the first candidate of the
\* highest priority
select_best_quality(task) ==
    IF Candidates(task) = <<>> THEN DefaultOrEmpty
    ELSE FirstIn(Candidates(task),
                 { n \in SeqRange(Candidates(task)) :
                     \A o \in SeqRange(Candidates(task)) :
                         InfoOf(models, n).priority >= InfoOf(models, o).priority })

RequiredCaps(task) ==
    (IF task.requires_vision THEN {"vision"} ELSE {})
    \cup (IF task.type = "code" THEN {"code"} ELSE {})
    \cup (IF task.type = "reasoning" THEN {"reasoning"} ELSE {})

\* twice the score of the code, so that the bonus of 0.5 is the integer 1
Score(info, task) ==
    2 * Cardinality(RequiredCaps(task) \cap info.capabilities)
    + (IF "function_calling" \in info.capabilities THEN 1 ELSE 0)

\* the first model of the highest score (a later one must score strictly more)
select_by_capability(task) ==
    IF models = <<>> THEN DefaultOrEmpty
    ELSE FirstIn(models,
                 { info \in SeqRange(models) :
                     \A o \in SeqRange(models) : Score(info, task) >= Score(o, task) }).name

\* mutant: the first registered model, whatever the counts
select_first_registered ==
    IF models = <<>> THEN DefaultOrEmpty ELSE models[1].name

\* min(self._usage_counts.items(), key=count)[0]: the first name of the lowest count
select_least_used ==
    IF models = <<>> THEN DefaultOrEmpty
    ELSE FirstIn(Names(models),
                 { n \in DOMAIN usage_counts :
                     \A o \in DOMAIN usage_counts : usage_counts[n] <= usage_counts[o] })

\* mutant: a task that requires vision goes to the best quality as well
select_smart_without_capability(task) ==
    IF task.complexity = "simple" THEN select_cheapest(task) ELSE select_best_quality(task)

select_smart(task) ==
    IF task.complexity = "simple" THEN select_cheapest(task)
    ELSE IF task.type \in {"code", "reasoning"} \/ task.complexity = "complex"
         THEN select_best_quality(task)
    ELSE IF task.requires_vision THEN select_by_capability(task)
    ELSE select_best_quality(task)

select_by_strategy(task) ==
    CASE strategy = "cost-optimized"   -> select_cheapest(task)
      [] strategy = "quality-first"    -> select_best_quality(task)
      [] strategy = "capability-match" -> select_by_capability(task)
      [] strategy = "load-balance"     -> select_least_used
      [] OTHER                         -> select_smart(task)

\* the rules, in list order, that match the task and name a registered model
MatchingRules(task) ==
    { i \in 1..Len(rules) :
        evaluate_rule(rules[i].condition, task) /\ Has(models, rules[i].model_name) }

\* select() on a router with a registered model: the provider it returns and
\* the usage counts it leaves
select(message) ==
    LET task == analyze(message)
        hits == MatchingRules(task)
        first == CHOOSE i \in hits : \A j \in hits : i <= j
        selected_name == select_by_strategy(task)
    IN  IF hits # {}
        THEN [provider |-> InfoOf(models, rules[first].model_name).provider,
              usage_counts |-> usage_counts]
        ELSE [provider |-> InfoOf(models, selected_name).provider,
              usage_counts |-> [usage_counts EXCEPT ![selected_name] = @ + 1]]

----------------------------------------------------------------------------
(* models/router.py: call_with_fallback *)

NoResult == [kind |-> "none", provider |-> 0]

\* the response that provider.call returned
Response(provider) == [kind |-> "response", provider |-> provider]

RuntimeError == [kind |-> "RuntimeError", provider |-> 0]

ValueError == [kind |-> "ValueError", provider |-> 0]

IdleCall ==
    [pc |-> "idle", models_to_try |-> <<>>, pos |-> 0, attempts |-> <<>>,
     result |-> NoResult]

AlwaysNew(n, list) == TRUE

\* n not in models_to_try
NotListed(n, list) == n \notin SeqRange(list)

\* list.extend(n for n in src if n not in list): the test sees the names that
\* this extend has already appended
RECURSIVE Extend(_, _)
Extend(list, src) ==
    IF src = <<>> THEN list
    ELSE Extend(IF NotListed(Head(src), list) THEN Append(list, Head(src)) ELSE list,
                Tail(src))

\* the name of the first model whose provider is the selected object
PrimaryName(primary) ==
    FirstIn(models, { info \in SeqRange(models) : info.provider = primary }).name

\* mutant: the registration order comes before the fallback order
ModelsToTryRegistrationFirst(primary) ==
    Extend(Extend(<<PrimaryName(primary)>>, Names(models)), fallback_order)

\* lines 326-332: the primary, then fallback_order, then self.models.keys()
ModelsToTry(primary) ==
    Extend(Extend(<<PrimaryName(primary)>>, fallback_order), Names(models))

\* the next position of models_to_try that holds a registered name, 0 if none
NextIndex(c) ==
    LET later == { i \in (c.pos + 1)..Len(c.models_to_try) : Has(models, c.models_to_try[i]) }
    IN  IF later = {} THEN 0 ELSE CHOOSE i \in later : \A j \in later : i <= j

SkipAfterFailure(i) == i + 1

\* except Exception: continue - the loop goes on behind the name that failed
AfterFailure(i) == i

----------------------------------------------------------------------------
\* Agent.__init__ and Session: no history, nothing remembered, no handler, no run
AgentStart ==
    /\ messages = <<>>
    /\ auto_allowed_tools = {}
    /\ confirm_callback = FALSE
    /\ pending_confirmations = << >>
    /\ conn = [t \in Tasks |-> FALSE]
    /\ loop = [t \in Tasks |-> IdleLoop]
    /\ nextId = 1
    /\ runs = 0
    /\ events = [t \in Tasks |-> <<>>]
    /\ executed = {}
    /\ gate_queried = {}
    /\ approved = {}

\* ModelRouter.__init__: nothing registered, no call
RouterStart ==
    /\ default_model = "none"
    /\ models = <<>>
    /\ rules = <<>>
    /\ fallback_order = <<>>
    /\ usage_counts = << >>
    /\ providers = 0
    /\ healthy = {}
    /\ call = IdleCall
    /\ router_calls = 0

\* no symbolic link, no decision of the gate yet
GateStart ==
    /\ links = NoLinks
    /\ decisions = <<>>

\* no delegation under way
IdleSub == [pc |-> "idle", iteration |-> 0, messages |-> <<>>, caller |-> "none"]

NestedStart ==
    /\ sub = IdleSub
    /\ sub_events = <<>>
    /\ returned = <<>>

\* select has not been called
SelectStart == selections = <<>>

\* no call of confirmation_callback is suspended
IdleWait == [pc |-> "idle", id |-> 0, future |-> 0]

\* no future created, the dict of the session is empty
HandleStart ==
    /\ handles = << >>
    /\ futures = <<>>
    /\ waits = [t \in Tasks |-> IdleWait]

\* uuid4 session ids of the sessions the server creates
SessionIds == {"s1", "s2"}

\* the dict objects that field(default_factory=dict) can return
DictObjects == {"d1", "d2"}

\* no frame sent, no cancel handled
ChannelStart ==
    /\ inbox = [c \in Tasks |-> <<>>]
    /\ cancelled_run = 0
    /\ allowed_all = {}
    /\ decided = {}

\* sessions: dict[str, Session] = {}
SessionStart ==
    /\ sessions = << >>
    /\ heap = [d \in DictObjects |-> << >>]
    /\ acted = "none"

Init ==
    /\ config \in { DefaultConfig(m) : m \in Modes }
    /\ max_iterations \in 1..MaxIter
    /\ AgentStart
    /\ strategy = "smart"
    /\ RouterStart
    /\ GateStart
    /\ NestedStart
    /\ ChannelStart
    /\ SessionStart
    /\ SelectStart
    /\ HandleStart

----------------------------------------------------------------------------
(* helpers on dicts *)

Put(f, k, v) == [x \in (DOMAIN f) \cup {k} |-> IF x = k THEN v ELSE f[x]]

Pop(f, k) == [x \in (DOMAIN f) \ {k} |-> f[x]]

----------------------------------------------------------------------------
(* agent.py: Agent.run, one action per stretch between two awaits *)

\* mutant: the ceiling is tested with <=
WhileConditionInclusive(iteration, ceiling) == iteration <= ceiling

\* while iteration < self.max_iterations
WhileCondition(iteration, ceiling) == iteration < ceiling

\* requires_confirm as computed at the head of the for loop
RequiresConfirm(name, auto_allowed) ==
    IF name \in auto_allowed THEN FALSE ELSE ToolManagerRequiresConfirmation(name)

\* mutant: a denial appends no message
NoDeniedMessages(id) == <<>>

\* the messages appended when the confirmation callback returned False
DeniedMessages(id) == <<ToolMessage(id, "User denied this tool execution.")>>

\* the messages appended after ToolManager.execute returned
ResultMessages(id, result) ==
    <<ToolMessage(id, IF result = "success" THEN "output" ELSE "error")>>

\* mutant: the list is rebound to the new messages
Replaced(msgs, new) == new

\* self.messages.append(...), once per message of new
Appended(msgs, new) == msgs \o new

\* mutant: the for loop takes the tool calls of the response from the end
CurrentFromEnd(t) == loop[t].calls[Len(loop[t].calls) + 1 - loop[t].idx]

\* the tool call the loop of task t is at
Current(t) == loop[t].calls[loop[t].idx]

\* the for loop moves to its next tool call, or the while loop to its head
Advance(l) ==
    IF l.idx < Len(l.calls)
    THEN [l EXCEPT !.pc = "dispatch", !.idx = l.idx + 1, !.elapsed = 0]
    ELSE [l EXCEPT !.pc = "loop_head", !.elapsed = 0]

Emit(t, evs) == events' = [events EXCEPT ![t] = @ \o evs]

\* lines 144-150: the user message is appended and thinking is yielded
Run(t) ==
    /\ loop[t].pc = "idle"
    /\ runs < MaxRuns
    /\ runs' = runs + 1
    /\ messages' = Appended(messages, <<UserMessage>>)
    /\ events' = [events EXCEPT ![t] = <<Event("thinking", 0, "none", "none")>>]
    /\ loop' = [loop EXCEPT ![t] = [IdleLoop EXCEPT !.pc = "loop_head"]]
    /\ UNCHANGED <<config, max_iterations, auto_allowed_tools, confirm_callback,
                   pending_confirmations, conn, nextId, executed, gate_queried, approved>>

StartRun(t) == Run(t) /\ UNCHANGED besideAgent

\* f"Agent reached maximum iterations ({self.max_iterations})"
BudgetText(n) ==
    CASE n = 1 -> "Agent reached maximum iterations (1)"
      [] n = 2 -> "Agent reached maximum iterations (2)"
      [] n = 3 -> "Agent reached maximum iterations (3)"
      [] OTHER -> "Agent reached maximum iterations (n)"

LoopHead(t) ==
    /\ loop[t].pc = "loop_head"
    /\ IF WhileCondition(loop[t].iteration, max_iterations)
       THEN /\ loop' = [loop EXCEPT ![t].pc = "model_call",
                                    ![t].iteration = @ + 1,
                                    ![t].model_calls = @ + 1]
            /\ UNCHANGED events
       ELSE /\ loop' = [loop EXCEPT ![t].pc = "idle", ![t].outcome = "budget"]
            /\ Emit(t, <<Event("error", 0, "none", BudgetText(max_iterations))>>)
    /\ UNCHANGED <<besideAgent, config, max_iterations, messages, auto_allowed_tools,
                   confirm_callback, pending_confirmations, conn, nextId, runs,
                   executed, gate_queried, approved>>

\* mutant: the return behind the done event is missing
ContinueAfterDone == "loop_head"

\* yield AgentEvent(type="done", ...); return
AfterDone == "idle"

\* lines 166-187: the model answered with the tool calls calls
ModelResponse(t, calls) ==
    /\ loop[t].pc = "model_call"
    /\ nextId' = nextId + Len(calls)
    /\ messages' = Appended(messages, <<AssistantMessage(calls)>>)
    /\ IF calls = <<>>
       THEN /\ Emit(t, <<Event("text", 0, "none", "text"), Event("done", 0, "none", "text")>>)
            /\ loop' = [loop EXCEPT ![t].pc = AfterDone, ![t].outcome = "done",
                                    ![t].all_tools = FALSE]
       ELSE /\ UNCHANGED events
            /\ loop' = [loop EXCEPT ![t].pc = "dispatch", ![t].calls = calls,
                                    ![t].idx = 1]
    /\ UNCHANGED <<besideAgent, config, max_iterations, auto_allowed_tools, confirm_callback,
                   pending_confirmations, conn, runs, executed, gate_queried, approved>>

ModelReturn(t) == \E calls \in Responses(nextId) : ModelResponse(t, calls)

\* mutant: the loop calls the model again
RetryAfterModelError == "model_call"

\* except Exception: yield the error event; return
AfterModelError == "idle"

\* model.call raised an exception e with str(e) = text
ModelRaises(t, text) ==
    /\ loop[t].pc = "model_call"
    /\ loop' = [loop EXCEPT ![t].pc = AfterModelError, ![t].outcome = "model_error"]
    /\ Emit(t, <<Event("error", 0, "none", text)>>)
    /\ UNCHANGED <<besideAgent, config, max_iterations, messages, auto_allowed_tools,
                   confirm_callback, pending_confirmations, conn, nextId, runs,
                   executed, gate_queried, approved>>

ModelFail(t) == ModelRaises(t, "model call failed")

\* lines 189-232: from the head of the for loop to the await of the future, or
\* to the denial when the callback returns False at once
Dispatch(t) ==
    /\ loop[t].pc = "dispatch"
    /\ LET tc == Current(t)
           need == RequiresConfirm(tc.name, auto_allowed_tools)
           announce == <<Event("tool_call", tc.id, tc.name,
                               IF need THEN "requires_confirmation" ELSE "none")>>
           request == <<Event("confirm_request", tc.id, tc.name, "none")>>
       IN IF ~need
          THEN /\ Emit(t, announce)
               /\ loop' = [loop EXCEPT ![t].pc = "execute"]
               /\ UNCHANGED <<messages, pending_confirmations, gate_queried>>
          ELSE IF ~confirm_callback
          THEN /\ Emit(t, announce \o request)
               /\ loop' = [loop EXCEPT ![t].pc = "execute"]
               /\ UNCHANGED <<messages, pending_confirmations, gate_queried>>
          ELSE IF ~check_tool_permission(config, tc.name, tc.arg).allowed
          THEN /\ gate_queried' = gate_queried \cup {tc.id}
               /\ messages' = Appended(messages, DeniedMessages(tc.id))
               /\ Emit(t, announce \o request \o <<Event("tool_result", tc.id, "none", "denied")>>)
               /\ loop' = [loop EXCEPT ![t] = Advance(@)]
               /\ UNCHANGED pending_confirmations
          ELSE /\ gate_queried' = gate_queried \cup {tc.id}
               /\ pending_confirmations' = Put(pending_confirmations, tc.id, "pending")
               /\ Emit(t, announce \o request)
               /\ loop' = [loop EXCEPT ![t].pc = "confirm_wait", ![t].elapsed = 0,
                                       ![t].waited = "none"]
               /\ UNCHANGED messages
    /\ UNCHANGED <<besideAgent, config, max_iterations, auto_allowed_tools, confirm_callback, conn,
                   nextId, runs, executed, approved>>

\* the params of a tool call whose arguments are the empty dict: params.get of
\* the gate yields "" for it
NoArguments == ""

\* ToolManager.execute: tool.execute(**params) raises TypeError when the
\* required parameter is missing, and the except clause turns it into a failure
ToolOutcomes(tc) == IF tc.arg = NoArguments THEN {"failure"} ELSE {"success", "failure"}

\* lines 234-254
Execute(t) ==
    /\ loop[t].pc = "execute"
    /\ \E result \in ToolOutcomes(Current(t)) :
        /\ executed' = executed \cup {Current(t)}
        /\ messages' = Appended(messages, ResultMessages(Current(t).id, result))
        /\ Emit(t, <<Event("tool_result", Current(t).id, Current(t).name, result)>>)
        /\ loop' = [loop EXCEPT ![t] = Advance(@)]
    /\ UNCHANGED <<besideAgent, config, max_iterations, auto_allowed_tools, confirm_callback,
                   pending_confirmations, conn, nextId, runs, gate_queried, approved>>

----------------------------------------------------------------------------
(* server/app.py: the confirmation channel *)

\* wait_for's timer has run out
TimedOut(elapsed) == elapsed >= ConfirmTimeout

\* time passes while the future of task t's wait is unresolved
Tick(t) ==
    /\ loop[t].pc = "confirm_wait"
    /\ pending_confirmations[Current(t).id] = "pending"
    /\ ~TimedOut(loop[t].elapsed)
    /\ loop' = [loop EXCEPT ![t].elapsed = @ + ClockStep]
    /\ UNCHANGED <<besideAgent, config, max_iterations, messages, auto_allowed_tools,
                   confirm_callback, pending_confirmations, conn, nextId, runs,
                   events, executed, gate_queried, approved>>

\* asyncio.wait_for cancels the future it waits for when the timeout elapses
Timeout(t) ==
    /\ loop[t].pc = "confirm_wait"
    /\ pending_confirmations[Current(t).id] = "pending"
    /\ TimedOut(loop[t].elapsed)
    /\ pending_confirmations' = [pending_confirmations EXCEPT ![Current(t).id] = "cancelled"]
    /\ UNCHANGED <<besideAgent, config, max_iterations, messages, auto_allowed_tools,
                   confirm_callback, conn, loop, nextId, runs, events, executed,
                   gate_queried, approved>>

\* mutant: only an explicit deny returns False, a timeout returns True
CallbackResultUnlessDenied(future) == future # "false"

\* what confirmation_callback returns once its future is done or cancelled
CallbackResult(future) == future = "true"

\* the waiting callback resumes (result, or TimeoutError), pops its entry and
\* returns to Agent.run, lines 218-232
WaitReturn(t) ==
    /\ loop[t].pc = "confirm_wait"
    /\ pending_confirmations[Current(t).id] # "pending"
    /\ pending_confirmations' = Pop(pending_confirmations, Current(t).id)
    /\ LET future == pending_confirmations[Current(t).id]
       IN IF CallbackResult(future)
          THEN /\ loop' = [loop EXCEPT ![t].pc = "execute", ![t].waited = future]
               /\ approved' = approved \cup {Current(t).id}
               /\ UNCHANGED <<messages, events>>
          ELSE /\ messages' = Appended(messages, DeniedMessages(Current(t).id))
               /\ Emit(t, <<Event("tool_result", Current(t).id, "none", "denied")>>)
               /\ loop' = [loop EXCEPT ![t] = Advance([@ EXCEPT !.waited = future])]
               /\ UNCHANGED approved
    /\ UNCHANGED <<besideAgent, config, max_iterations, auto_allowed_tools, confirm_callback, conn,
                   nextId, runs, executed, gate_queried>>

\* websocket_endpoint up to its receive loop: installs the callback
Connect(c) ==
    /\ ~conn[c]
    /\ loop[c].pc = "idle"
    /\ conn' = [conn EXCEPT ![c] = TRUE]
    /\ confirm_callback' = TRUE
    /\ UNCHANGED <<besideAgent, config, max_iterations, messages, auto_allowed_tools,
                   pending_confirmations, loop, nextId, runs, events, executed,
                   gate_queried, approved>>

\* data.get("tool_name") of a confirm_response: absent, or a name the client chose
ClientToolNames == {"none", "file_write", "bash_exec"}

\* mutant: set_result overwrites a result already set
SetResultOverwrites(future, value) == value

\* Future.set_result: allowed on a pending future only
SetResult(future, value) == IF future = "pending" THEN value ELSE "InvalidStateError"

\* the set of auto-approved tools after allow_tool_for_session for an allow_all
AfterAllowAll(auto_allowed, action, tool_name) ==
    IF action = "allow_all" /\ tool_name # "none"
    THEN auto_allowed \cup {tool_name}
    ELSE auto_allowed

\* lines 671-688: the branch for a confirm_response whose id is pending
Resolve(c, id, action, tool_name) ==
    /\ id \in DOMAIN pending_confirmations
    /\ LET set == SetResult(pending_confirmations[id],
                            IF action = "deny" THEN "false" ELSE "true")
       IN /\ auto_allowed_tools' = AfterAllowAll(auto_allowed_tools, action, tool_name)
          /\ IF set = "InvalidStateError"
             THEN /\ conn' = [conn EXCEPT ![c] = FALSE]
                  /\ UNCHANGED pending_confirmations
             ELSE /\ pending_confirmations' = [pending_confirmations EXCEPT ![id] = set]
                  /\ UNCHANGED conn
    /\ UNCHANGED <<config, max_iterations, messages, confirm_callback, loop, nextId,
                   runs, events, executed, gate_queried, approved>>

\* the handler of connection c receives a confirm_response for a pending id
ConfirmResponse(c) ==
    /\ conn[c]
    /\ loop[c].pc = "idle"
    /\ \E id \in DOMAIN pending_confirmations,
          action \in {"allow", "allow_all", "deny"},
          tool_name \in ClientToolNames :
        Resolve(c, id, action, tool_name)
    /\ UNCHANGED besideAgent

\* Agent.clear_history
ClearHistory ==
    /\ messages' = <<>>
    /\ auto_allowed_tools' = {}
    /\ UNCHANGED <<besideAgent, config, max_iterations, confirm_callback, pending_confirmations,
                   conn, loop, nextId, runs, events, executed, gate_queried, approved>>

Next ==
    \/ \E t \in Runners : StartRun(t)
    \/ \E t \in Tasks : LoopHead(t)
    \/ \E t \in Tasks : ModelReturn(t)
    \/ \E t \in Tasks : ModelFail(t)
    \/ \E t \in Tasks : Dispatch(t)
    \/ \E t \in Tasks : Execute(t)
    \/ \E t \in Tasks : Tick(t)
    \/ \E t \in Tasks : Timeout(t)
    \/ \E t \in Tasks : WaitReturn(t)
    \/ \E t \in Tasks \ Runners : Connect(t)
    \/ \E t \in Tasks : ConfirmResponse(t)
    \/ (\A t \in Tasks : loop[t].pc = "idle") /\ ClearHistory

Spec == Init /\ [][Next]_vars

\* the event loop runs every task that can run, and its timers fire
Fairness ==
    \A t \in Tasks :
        /\ WF_vars(LoopHead(t)) /\ WF_vars(ModelReturn(t) \/ ModelFail(t))
        /\ WF_vars(Dispatch(t)) /\ WF_vars(Execute(t))
        /\ WF_vars(Tick(t)) /\ WF_vars(Timeout(t)) /\ WF_vars(WaitReturn(t))

FairSpec == Spec /\ Fairness

----------------------------------------------------------------------------
(* models/router.py: operations of the router *)

\* one pass of the provider loop of create_router_from_config: a provider
\* object is constructed and registered under the configured name
RegisterModel(cfg, ceiling) ==
    /\ providers < ceiling
    /\ providers' = providers + 1
    /\ models' = DictPut(models, ModelInfo(cfg.name, providers + 1, cfg.input, cfg.output,
                                           cfg.features, cfg.priority))
    /\ usage_counts' = Put(usage_counts, cfg.name, 0)
    /\ default_model' = IF default_model = "none" THEN cfg.name ELSE default_model
    /\ UNCHANGED <<besideRouter, strategy, rules, fallback_order, healthy, call, router_calls>>

register_model(cfg) == RegisterModel(cfg, MaxRegistrations)

\* ModelRouter.add_rule on a list of fewer than ceiling rules
AddRule(rule, ceiling) ==
    /\ Len(rules) < ceiling
    /\ rules' = SortedByPriority(Append(rules, rule))
    /\ UNCHANGED <<besideRouter, strategy, default_model, models, fallback_order,
                   usage_counts, providers, healthy, call, router_calls>>

add_rule(rule) == AddRule(rule, MaxRules)

set_fallback_order(order) ==
    /\ fallback_order' = order
    /\ UNCHANGED <<besideRouter, strategy, default_model, models, rules, usage_counts,
                   providers, healthy, call, router_calls>>

\* call_with_fallback up to its first await: select() and the list of names to
\* try; up is the set of provider objects whose call() returns during this call
call_with_fallback(message, up) ==
    /\ call.pc # "calling"
    /\ router_calls < MaxCalls
    /\ router_calls' = router_calls + 1
    /\ healthy' = up
    /\ IF models = <<>>
       THEN /\ call' = [IdleCall EXCEPT !.pc = "raised", !.result = ValueError]
            /\ UNCHANGED usage_counts
       ELSE /\ call' = [IdleCall EXCEPT
                           !.pc = "calling",
                           !.models_to_try = ModelsToTry(select(message).provider)]
            /\ usage_counts' = select(message).usage_counts
    /\ UNCHANGED <<besideRouter, strategy, default_model, models, rules, fallback_order,
                   providers>>

\* the provider objects registered with the router
Registered == { models[i].provider : i \in 1..Len(models) }

Attempt(name, ok) ==
    [name |-> name, provider |-> InfoOf(models, name).provider, ok |-> ok]

\* return await provider.call(**kwargs)
ProviderReturns ==
    /\ call.pc = "calling"
    /\ NextIndex(call) # 0
    /\ LET name == call.models_to_try[NextIndex(call)]
       IN  /\ InfoOf(models, name).provider \in healthy
           /\ call' = [call EXCEPT
                          !.pc = "returned",
                          !.pos = NextIndex(call),
                          !.attempts = Append(@, Attempt(name, TRUE)),
                          !.result = Response(InfoOf(models, name).provider)]
    /\ UNCHANGED <<besideRouter, strategy, default_model, models, rules, fallback_order,
                   usage_counts, providers, healthy, router_calls>>

\* provider.call raised: the error is kept and the loop continues
ProviderRaises ==
    /\ call.pc = "calling"
    /\ NextIndex(call) # 0
    /\ LET name == call.models_to_try[NextIndex(call)]
       IN  /\ InfoOf(models, name).provider \notin healthy
           /\ call' = [call EXCEPT
                          !.pos = AfterFailure(NextIndex(call)),
                          !.attempts = Append(@, Attempt(name, FALSE))]
    /\ UNCHANGED <<besideRouter, strategy, default_model, models, rules, fallback_order,
                   usage_counts, providers, healthy, router_calls>>

\* raise RuntimeError("All models failed. ...") behind the loop
AllModelsFailed ==
    /\ call.pc = "calling"
    /\ NextIndex(call) = 0
    /\ call' = [call EXCEPT !.pc = "raised", !.result = RuntimeError]
    /\ UNCHANGED <<besideRouter, strategy, default_model, models, rules, fallback_order,
                   usage_counts, providers, healthy, router_calls>>

\* the router of a server: constructed with some strategy, nothing registered
RouterInit ==
    /\ config = DefaultConfig("interactive")
    /\ max_iterations = 1
    /\ AgentStart
    /\ strategy \in Strategies
    /\ RouterStart
    /\ GateStart
    /\ NestedStart
    /\ ChannelStart
    /\ SessionStart
    /\ SelectStart
    /\ HandleStart

\* create_router_from_config is the only caller of register_model, add_rule and
\* set_fallback_order: the tables are filled before the first call
RouterNext ==
    \/ router_calls = 0 /\ \E cfg \in ProviderConfigs : register_model(cfg)
    \/ router_calls = 0 /\ \E rule \in RuleConfigs : add_rule(rule)
    \/ router_calls = 0 /\ \E order \in FallbackOrders : set_fallback_order(order)
    \/ \E message \in Messages, up \in SUBSET Registered :
           call_with_fallback(message, up)
    \/ ProviderReturns
    \/ ProviderRaises
    \/ AllModelsFailed

RouterSpec == RouterInit /\ [][RouterNext]_vars

\* a provider call returns or raises, and the coroutine is resumed
RouterFairness ==
    WF_vars(ProviderReturns) /\ WF_vars(ProviderRaises) /\ WF_vars(AllModelsFailed)

RouterFairSpec == RouterSpec /\ RouterFairness

----------------------------------------------------------------------------
(* models/router.py: call_with_fallback on a router of three providers *)

MaxFallbackRegistrations == 3

\* create_router_from_config registers the providers and sets the fallback
\* order before the first call
FallbackNext ==
    \/ router_calls = 0 /\ \E cfg \in ProviderConfigs : RegisterModel(cfg, MaxFallbackRegistrations)
    \/ router_calls = 0 /\ \E order \in FallbackOrders : set_fallback_order(order)
    \/ \E message \in Messages, up \in SUBSET Registered :
           call_with_fallback(message, up)
    \/ ProviderReturns
    \/ ProviderRaises
    \/ AllModelsFailed

FallbackSpec == RouterInit /\ [][FallbackNext]_vars

----------------------------------------------------------------------------
(* models/router.py: ModelRouter.select on a configured router *)

\* the entries of config["rules"] here: those above, and a rule of the highest
\* priority for simple tasks
SelectRuleConfigs ==
    RuleConfigs \cup { RoutingRule("task.complexity == 'simple'", "m1", 3) }

\* the user messages here: those above, and a request about code with an image
SelectMessages ==
    Messages \cup { [code_kw |-> TRUE, reasoning_kw |-> FALSE, simple_kw |-> FALSE,
                     word_count |-> 30, image |-> TRUE] }

\* one call of select, as its caller sees it
Selection(message, result) ==
    [message |-> message, strategy |-> strategy, rules |-> rules, models |-> models,
     before |-> usage_counts, provider |-> result.provider, after |-> result.usage_counts]

\* ModelRouter.select(message); without a registered model it raises ValueError
SelectUpTo(message, ceiling) ==
    /\ Len(selections) < ceiling
    /\ LET result == IF models = <<>>
                     THEN [provider |-> 0, usage_counts |-> usage_counts]
                     ELSE select(message)
       IN  /\ selections' = Append(selections, Selection(message, result))
           /\ usage_counts' = result.usage_counts
    /\ UNCHANGED <<besideSelect, strategy, default_model, models, rules, fallback_order,
                   providers, healthy, call, router_calls>>

Select(message) == SelectUpTo(message, MaxSelections)

\* create_router_from_config fills the tables before the first call of select
SelectNext ==
    \/ selections = <<>> /\ \E cfg \in ProviderConfigs : register_model(cfg)
    \/ selections = <<>> /\ \E rule \in SelectRuleConfigs : AddRule(rule, MaxSelectRules)
    \/ \E message \in SelectMessages : Select(message)

SelectSpec == RouterInit /\ [][SelectNext]_vars

----------------------------------------------------------------------------
(* models/router.py: one selection under the smart strategy, for every
   combination of what TaskAnalyzer reads off a message *)

\* the providers above, and one that sees images only and ranks highest
SmartProviderConfigs ==
    ProviderConfigs \cup { [name |-> "m4", input |-> 4, output |-> 4,
                            features |-> {"vision"}, priority |-> 4] }

\* every combination of keywords, lengths (short, medium, over 100 words) and images
SmartMessages ==
    [ code_kw : BOOLEAN, reasoning_kw : BOOLEAN, simple_kw : BOOLEAN,
      word_count : {5, 30, 150}, image : BOOLEAN ]

SmartInit == RouterInit /\ strategy = "smart"

SmartNext ==
    \/ selections = <<>> /\ \E cfg \in SmartProviderConfigs : RegisterModel(cfg, MaxFallbackRegistrations)
    \/ selections = <<>> /\ \E rule \in RuleConfigs : add_rule(rule)
    \/ \E message \in SmartMessages : Select(message)

SmartSpec == SmartInit /\ [][SmartNext]_vars

----------------------------------------------------------------------------
(* models/router.py: a run of selections under the load-balance strategy *)

MaxBalanceSelections == 4

BalanceInit == RouterInit /\ strategy = "load-balance"

\* the providers and the rules are there before the first selection
BalanceNext ==
    \/ selections = <<>> /\ \E cfg \in ProviderConfigs : RegisterModel(cfg, MaxFallbackRegistrations)
    \/ selections = <<>> /\ \E rule \in RuleConfigs : add_rule(rule)
    \/ \E message \in Messages : SelectUpTo(message, MaxBalanceSelections)

BalanceSpec == BalanceInit /\ [][BalanceNext]_vars

----------------------------------------------------------------------------
(* models/router.py: the public operations of ModelRouter in any order *)

\* register_model, add_rule, select and call_with_fallback are public methods
\* and nothing in them asks whether the router is already in use
OperationsNext ==
    \/ \E cfg \in ProviderConfigs : register_model(cfg)
    \/ \E rule \in RuleConfigs : add_rule(rule)
    \/ \E message \in Messages : Select(message)
    \/ \E message \in Messages, up \in SUBSET Registered :
           call_with_fallback(message, up)
    \/ ProviderReturns
    \/ ProviderRaises
    \/ AllModelsFailed

OperationsSpec == RouterInit /\ [][OperationsNext]_vars

----------------------------------------------------------------------------
(* permissions.py beside tools/bash.py: the gate and the file system *)

\* the configurations of the gate: the default lists in each mode, and in
\* interactive mode a blocked entry written with a leading blank, with and
\* without an allow-list
GateConfigs ==
    { DefaultConfig(m) : m \in Modes }
        \cup { [DefaultConfig("interactive") EXCEPT !.allowed_commands = a,
                                                   !.blocked_commands = <<" sudo", "chmod 777">>] :
                 a \in {<<>>, DefaultConfig("interactive").allowed_commands} }

GateCommands ==
    {"ls -la", "sudo rm -rf /", " sudo reboot", "SUDO reboot", "python link.py"}

GatePaths == {"/tmp/a", "/home/u/.ssh/id"}

\* the (tool_name, params) pairs the gate is asked about
GateQueries ==
    { [tool_name |-> "bash_exec", arg |-> c] : c \in GateCommands }
        \cup { [tool_name |-> "file_read", arg |-> q] : q \in GatePaths }
        \cup { [tool_name |-> "file_write", arg |-> "/tmp/a"] }

\* one call of check_tool_permission: it assigns no field and writes no file;
\* decisions records what was asked and what was returned
Decide(q) ==
    /\ Len(decisions) < MaxDecisions
    /\ decisions' = Append(decisions,
                           [ tool_name |-> q.tool_name, arg |-> q.arg, cfg |-> config,
                             fs |-> links,
                             verdict |-> check_tool_permission(config, q.tool_name, q.arg) ])
    /\ UNCHANGED <<besideGate, links>>

\* BashExecTool.execute hands a command the gate allows to the shell; the
\* command makes /tmp/a a link to target, or a plain file again
RunLinkCommand(target) ==
    /\ check_tool_permission(config, "bash_exec", "python link.py").allowed
    /\ links["/tmp/a"] # target
    /\ links' = [links EXCEPT !["/tmp/a"] = target]
    /\ UNCHANGED <<besideGate, decisions>>

GateInit ==
    /\ config \in GateConfigs
    /\ max_iterations = 1
    /\ AgentStart
    /\ strategy = "smart"
    /\ RouterStart
    /\ GateStart
    /\ NestedStart
    /\ ChannelStart
    /\ SessionStart
    /\ SelectStart
    /\ HandleStart

GateNext ==
    \/ \E q \in GateQueries : Decide(q)
    \/ \E target \in {"none", "/home/u/.ssh/id"} : RunLinkCommand(target)

GateSpec == GateInit /\ [][GateNext]_vars

----------------------------------------------------------------------------
(* agents/: delegation to the sub-agent coder *)

\* Orchestrator.__init__ registers DelegationTool(coder); its name is
\* delegate_to_coder and it keeps Tool.requires_confirmation = False
DelegationTools == {"delegate_to_coder"}

\* the methods class ToolManager defines
ToolManagerMethods ==
    {"register", "register_all", "get", "get_all", "get_tool_definitions", "execute",
     "requires_confirmation"}

\* str(e) of the AttributeError an unknown method name raises
AttributeErrorText == "'ToolManager' object has no attribute 'get_tool'"

\* str(e) of an exception raised by the nested model call
NestedModelErrorText == "nested model call failed"

\* what the parent's model may ask for in multi-agent mode
Delegations == { [name |-> "delegate_to_coder", arg |-> task] : task \in {"write X", "fix Y"} }

\* the context argument of a delegation; it is optional
Contexts == {"", "repo R"}

DelegationResponses(first) ==
    {<<>>}
    \cup { <<ToolCall(first, a)>> : a \in { i \in Delegations : first <= MaxToolCalls } }
    \cup { <<ToolCall(first, a), ToolCall(first + 1, b)>> :
             <<a, b>> \in { q \in Delegations \X Delegations : first + 1 <= MaxToolCalls } }

\* the answers of the nested model: response.content and response.tool_calls
NestedResponses ==
    [ content : {"", "X is written"},
      tool_calls : {<<>>, <<[name |-> "file_write", arg |-> "/tmp/a"]>>} ]

SubAgentEvent(event_type, content) == [event_type |-> event_type, content |-> content]

\* SubAgentResult or the exception that left SubAgent.execute, with the number
\* of nested model calls made
Returned(id, kind, iterations, text) ==
    [id |-> id, kind |-> kind, iterations |-> iterations, text |-> text]

\* mutant: the result of the delegation ends the parent's run
ToolResultEndsRun(l) == [l EXCEPT !.pc = "idle", !.outcome = "model_error"]

\* agent.py lines 240-254 after ToolManager.execute returned: the for loop goes on
AfterToolResult(l) == Advance(l)

\* ToolManager.execute returned the ToolResult of DelegationTool.execute:
\* Agent.run appends the tool message, yields tool_result and goes on
DelegationReturns(t, success, text) ==
    /\ messages' = Appended(messages, <<ToolMessage(Current(t).id, text)>>)
    /\ Emit(t, <<Event("tool_result", Current(t).id, Current(t).name,
                       IF success THEN "success" ELSE "failure")>>)
    /\ loop' = [loop EXCEPT ![t] = AfterToolResult(@)]

\* mutant: the nested conversation goes on from the parent's history
InheritedHistory(task, context) == messages \o <<Message("user", task, <<>>, 0)>>

\* agents/base.py lines 63-73 with ctx of orchestrator.py line 62: the messages
\* of a nested loop before its first model call
NestedHistory(task, context) ==
    IF context # ""
    THEN <<Message("user", "Context:\ncontext: " \o context \o "\n\nTask: " \o task, <<>>, 0)>>
    ELSE <<Message("user", task, <<>>, 0)>>

\* mutant: the except branch notifies done
NotifyDoneOnException(text) == <<SubAgentEvent("done", text)>>

\* orchestrator.py lines 73-75: the except branch notifies error with str(e)
NotifyError(text) == <<SubAgentEvent("error", text)>>

\* Agent.run awaits ToolManager.execute for a delegation tool: DelegationTool
\* notifies start, CoderAgent.execute enters _run_agent_loop with ceiling
\* CoderMaxIterations up to the first await of model.call
DelegateStart(t) ==
    /\ loop[t].pc = "execute"
    /\ Current(t).name \in DelegationTools
    /\ sub.pc = "idle"
    /\ executed' = executed \cup {Current(t)}
    /\ IF 0 < CoderMaxIterations
       THEN /\ \E context \in Contexts :
                 sub' = [pc |-> "model_call", iteration |-> 1,
                         messages |-> NestedHistory(Current(t).arg, context),
                         caller |-> t]
            /\ sub_events' = Append(sub_events, SubAgentEvent("start", Current(t).arg))
            /\ loop' = [loop EXCEPT ![t].pc = "delegated"]
            /\ UNCHANGED <<messages, events, returned>>
       ELSE /\ sub_events' = sub_events \o <<SubAgentEvent("start", Current(t).arg),
                                             SubAgentEvent("done", "")>>
            /\ returned' = Append(returned, Returned(Current(t).id, "budget", 0,
                                                     "Max iterations reached"))
            /\ DelegationReturns(t, FALSE, "Max iterations reached")
            /\ UNCHANGED sub
    /\ UNCHANGED <<besideNested, config, max_iterations, auto_allowed_tools, confirm_callback,
                   pending_confirmations, conn, nextId, runs, gate_queried, approved>>

\* the nested model.call returned: lines 86-101, and what DelegationTool.execute
\* and Agent.run do with the outcome before the next await
SubModelReturn ==
    /\ sub.pc = "model_call"
    /\ \E r \in NestedResponses :
        LET t == sub.caller
            progress == IF r.content # ""
                        THEN <<SubAgentEvent("progress", r.content)>> ELSE <<>>
        IN IF r.tool_calls = <<>>
           THEN /\ sub_events' = sub_events \o progress \o <<SubAgentEvent("done", r.content)>>
                /\ returned' = Append(returned, Returned(Current(t).id, "result",
                                                         sub.iteration, r.content))
                /\ DelegationReturns(t, TRUE, r.content)
                /\ sub' = IdleSub
           ELSE IF "get_tool" \in ToolManagerMethods
           THEN /\ sub' = [sub EXCEPT !.pc = "tool_execute"]
                /\ sub_events' = sub_events \o progress
                /\ UNCHANGED <<messages, events, loop, returned>>
           ELSE /\ sub_events' = sub_events \o progress \o NotifyError(AttributeErrorText)
                /\ returned' = Append(returned, Returned(Current(t).id, "AttributeError",
                                                         sub.iteration, AttributeErrorText))
                /\ DelegationReturns(t, FALSE, AttributeErrorText)
                /\ sub' = IdleSub
    /\ UNCHANGED <<besideNested, config, max_iterations, auto_allowed_tools, confirm_callback,
                   pending_confirmations, conn, nextId, runs, executed, gate_queried,
                   approved>>

\* the nested model.call raised: nothing in _run_agent_loop catches it, the
\* except of DelegationTool.execute does
SubModelFail ==
    /\ sub.pc = "model_call"
    /\ LET t == sub.caller
       IN /\ sub_events' = sub_events \o NotifyError(NestedModelErrorText)
          /\ returned' = Append(returned, Returned(Current(t).id, "ModelError",
                                                   sub.iteration, NestedModelErrorText))
          /\ DelegationReturns(t, FALSE, NestedModelErrorText)
          /\ sub' = IdleSub
    /\ UNCHANGED <<besideNested, config, max_iterations, auto_allowed_tools, confirm_callback,
                   pending_confirmations, conn, nextId, runs, executed, gate_queried,
                   approved>>

\* a session in multi-agent mode
NestedInit ==
    /\ config = DefaultConfig("interactive")
    /\ max_iterations \in 1..MaxIter
    /\ AgentStart
    /\ strategy = "smart"
    /\ RouterStart
    /\ GateStart
    /\ NestedStart
    /\ ChannelStart
    /\ SessionStart
    /\ SelectStart
    /\ HandleStart

NestedNext ==
    \/ \E t \in Runners : StartRun(t)
    \/ \E t \in Runners : LoopHead(t)
    \/ \E t \in Runners : \E calls \in DelegationResponses(nextId) : ModelResponse(t, calls)
    \/ \E t \in Runners : ModelFail(t)
    \/ \E t \in Runners : Dispatch(t)
    \/ \E t \in Runners : DelegateStart(t)
    \/ SubModelReturn
    \/ SubModelFail

NestedSpec == NestedInit /\ [][NestedNext]_vars

\* the event loop resumes every coroutine whose await has completed, and a
\* model call returns or raises
NestedFairness ==
    /\ \A t \in Runners :
          /\ WF_vars(LoopHead(t))
          /\ WF_vars(Dispatch(t))
          /\ WF_vars(DelegateStart(t))
          /\ WF_vars(ModelFail(t) \/ \E calls \in DelegationResponses(nextId) :
                                        ModelResponse(t, calls))
    /\ WF_vars(SubModelReturn \/ SubModelFail)

NestedFairSpec == NestedSpec /\ NestedFairness

----------------------------------------------------------------------------
(* server/app.py: the receive loop of websocket_endpoint and its client *)

\* data of receive_json: type, and for a confirm_response id, action and
\* data.get("tool_name")
Frame(type, id, action, tool_name) ==
    [type |-> type, id |-> id, action |-> action, tool_name |-> tool_name]

MessageFrame == Frame("message", 0, "none", "none")

CancelFrame == Frame("cancel", 0, "none", "none")

\* the answers of the model in this specification: file_write calls only
Writes == { [name |-> "file_write", arg |-> "/tmp/a"] }

WriteResponses(first) ==
    {<<>>}
    \cup { <<ToolCall(first, a)>> : a \in { i \in Writes : first <= MaxToolCalls } }
    \cup { <<ToolCall(first, a), ToolCall(first + 1, b)>> :
             <<a, b>> \in { q \in Writes \X Writes : first + 1 <= MaxToolCalls } }

\* a run of the session's agent is in flight
InFlight == \E t \in Tasks : loop[t].pc # "idle"

\* the wait for id is under way and its timer has not run out
Waiting(id) ==
    \E t \in Tasks :
        /\ loop[t].pc = "confirm_wait"
        /\ Current(t).id = id
        /\ pending_confirmations[id] = "pending"
        /\ ~TimedOut(loop[t].elapsed)

\* the message frames sent and not yet received
MessagesInFlight ==
    Cardinality({ c \in Tasks : \E k \in 1..Len(inbox[c]) : inbox[c][k].type = "message" })

\* the client of connection c sends a frame: a user message, a cancel, or the
\* decision on a confirmation that is pending
ClientSend(c) ==
    /\ conn[c]
    /\ Len(inbox[c]) < MaxInbox
    /\ \E f \in {MessageFrame, CancelFrame}
                  \cup { Frame("confirm_response", id, action, "none") :
                           id \in DOMAIN pending_confirmations,
                           action \in {"allow", "deny"} }
                  \cup { Frame("confirm_response", id, "allow_all", tool_name) :
                           id \in DOMAIN pending_confirmations,
                           tool_name \in ClientToolNames } :
        /\ f.type = "message" => c \in Runners /\ runs + MessagesInFlight < MaxMessages
        /\ f.type = "cancel" => InFlight
        /\ inbox' = [inbox EXCEPT ![c] = Append(@, f)]
        /\ decided' = IF f.type = "confirm_response" /\ Waiting(f.id)
                      THEN decided \cup {f.id} ELSE decided
    /\ UNCHANGED <<agentVars, besideChannel, cancelled_run, allowed_all>>

\* the handler of connection c is at await websocket.receive_json()
Receiving(c) == conn[c] /\ loop[c].pc = "idle" /\ inbox[c] # <<>>

\* Agent.run_streaming, the run that yields its events as they happen: the
\* steps of Agent.run, with the text of the model delivered in chunks
run_streaming(c) == Run(c)

\* a message frame is received: the handler iterates over the run and does not
\* come back to receive_json before the run has ended
ReceiveMessage(c) ==
    /\ Receiving(c)
    /\ Head(inbox[c]).type = "message"
    /\ inbox' = [inbox EXCEPT ![c] = Tail(@)]
    /\ run_streaming(c)
    /\ UNCHANGED <<besideChannel, cancelled_run, allowed_all, decided>>

\* a confirm_response frame is received; an exception of set_result ends the handler
ReceiveConfirmResponse(c) ==
    /\ Receiving(c)
    /\ Head(inbox[c]).type = "confirm_response"
    /\ LET f == Head(inbox[c])
       IN IF f.id \in DOMAIN pending_confirmations
          THEN /\ Resolve(c, f.id, f.action, f.tool_name)
               /\ inbox' = [inbox EXCEPT ![c] = IF conn'[c] THEN Tail(@) ELSE <<>>]
               /\ allowed_all' = IF f.action = "allow_all" /\ conn'[c]
                                 THEN allowed_all \cup {f.id} ELSE allowed_all
          ELSE /\ inbox' = [inbox EXCEPT ![c] = Tail(@)]
               /\ UNCHANGED <<agentVars, allowed_all>>
    /\ UNCHANGED <<besideChannel, cancelled_run, decided>>

\* a cancel frame is received: the handler sends {"type": "cancelled"}
ReceiveCancel(c) ==
    /\ Receiving(c)
    /\ Head(inbox[c]).type = "cancel"
    /\ inbox' = [inbox EXCEPT ![c] = Tail(@)]
    /\ cancelled_run' = IF InFlight THEN runs ELSE cancelled_run
    /\ UNCHANGED <<agentVars, besideChannel, allowed_all, decided>>

\* a frame that can be received is received before the clock of a wait moves on
NoFrameReady == \A c \in Tasks : ~Receiving(c)

\* two clients are connected to the session
ChannelInit ==
    /\ config = DefaultConfig("interactive")
    /\ max_iterations = 1
    /\ messages = <<>>
    /\ auto_allowed_tools = {}
    /\ confirm_callback = TRUE
    /\ pending_confirmations = << >>
    /\ conn = [t \in Tasks |-> TRUE]
    /\ loop = [t \in Tasks |-> IdleLoop]
    /\ nextId = 1
    /\ runs = 0
    /\ events = [t \in Tasks |-> <<>>]
    /\ executed = {}
    /\ gate_queried = {}
    /\ approved = {}
    /\ strategy = "smart"
    /\ RouterStart
    /\ GateStart
    /\ NestedStart
    /\ ChannelStart
    /\ SessionStart
    /\ SelectStart
    /\ HandleStart

ChannelNext ==
    \/ \E c \in Tasks : ClientSend(c)
    \/ \E c \in Tasks : ReceiveMessage(c)
    \/ \E c \in Tasks : ReceiveConfirmResponse(c)
    \/ \E c \in Tasks : ReceiveCancel(c)
    \/ \E t \in Tasks : LoopHead(t)
    \/ \E t \in Tasks : \E calls \in WriteResponses(nextId) : ModelResponse(t, calls)
    \/ \E t \in Tasks : ModelFail(t)
    \/ \E t \in Tasks : Dispatch(t)
    \/ \E t \in Tasks : Execute(t)
    \/ \E t \in Tasks : NoFrameReady /\ Tick(t)
    \/ \E t \in Tasks : NoFrameReady /\ Timeout(t)
    \/ \E t \in Tasks : WaitReturn(t)
    \/ \E c \in Tasks : Connect(c)

ChannelSpec == ChannelInit /\ [][ChannelNext]_vars

----------------------------------------------------------------------------
(* server/app.py: two websocket connections to one session *)

\* the answers of the model in this specification: at most one file_read call
Reads == { [name |-> "file_read", arg |-> "/tmp/a"] }

ReadResponses(first) ==
    {<<>>} \cup { <<ToolCall(first, a)>> : a \in { i \in Reads : first <= MaxToolCalls } }

\* the client of connection c sends a user message
ClientSendsMessage(c) ==
    /\ conn[c]
    /\ Len(inbox[c]) < MaxInbox
    /\ runs + MessagesInFlight < MaxRuns
    /\ inbox' = [inbox EXCEPT ![c] = Append(@, MessageFrame)]
    /\ UNCHANGED <<agentVars, besideChannel, cancelled_run, allowed_all, decided>>

OverlapNext ==
    \/ \E c \in Tasks : ClientSendsMessage(c)
    \/ \E c \in Tasks : ReceiveMessage(c)
    \/ \E t \in Tasks : LoopHead(t)
    \/ \E t \in Tasks : \E calls \in ReadResponses(nextId) : ModelResponse(t, calls)
    \/ \E t \in Tasks : ModelFail(t)
    \/ \E t \in Tasks : Dispatch(t)
    \/ \E t \in Tasks : Execute(t)

OverlapSpec == ChannelInit /\ [][OverlapNext]_vars

----------------------------------------------------------------------------
(* server/app.py: the sessions dict; each Session has an Agent and a
   pending_confirmations dict of its own *)

\* mutant: one dict object serves every Session (a mutable default value)
SharedDict(session_id) == "d1"

\* field(default_factory=dict): a dict object of its own for each Session
NewDict(session_id) == IF session_id = "s1" THEN "d1" ELSE "d2"

NoCall == ToolCall(0, [name |-> "none", arg |-> "none"])

\* Agent(model, tool_manager): empty history, nothing auto-approved
NewAgent == [messages |-> <<>>, auto_allowed_tools |-> {}]

\* Session(id, agent, created_at), with the position of the run of its agent
NewSession(session_id) ==
    [id |-> session_id, agent |-> NewAgent,
     pending_confirmations |-> NewDict(session_id),
     pc |-> "idle", call |-> NoCall, model_calls |-> 0]

\* session.pending_confirmations, the entries of the dict the session refers to
PendingOf(session_id) == heap[sessions[session_id].pending_confirmations]

\* the answers of the model: text only, or one call of file_read or file_write;
\* the id of a call is the number of the model call of the conversation that
\* asked for it, so that the ids of one session are those of the other
SessionResponses(first) ==
    {<<>>} \cup { <<ToolCall(first, inv)>> : inv \in Reads \cup Writes }

\* self.messages.append(...) on the agent of session se
WithMessages(se, new) ==
    [se EXCEPT !.agent.messages = Appended(@, new)]

\* the while loop of the run goes to its next model call (the ceiling of 50
\* iterations is beyond the model calls of a session here)
NextTurn(se) == [se EXCEPT !.pc = "model_call", !.call = NoCall]

\* POST /api/chat without a known session_id: create_session
create_session(session_id) ==
    /\ session_id \notin DOMAIN sessions
    /\ sessions' = Put(sessions, session_id, NewSession(session_id))
    /\ acted' = session_id
    /\ UNCHANGED <<agentVars, besideSessions, heap>>

\* a message frame on a websocket of the session starts a run of its agent
SessionMessage(session_id) ==
    /\ session_id \in DOMAIN sessions
    /\ LET se == sessions[session_id]
       IN /\ se.pc = "idle"
          /\ se.model_calls < MaxTurns
          /\ sessions' = [sessions EXCEPT ![session_id] =
                 [WithMessages(se, <<UserMessage>>) EXCEPT !.pc = "model_call"]]
    /\ acted' = session_id
    /\ UNCHANGED <<agentVars, besideSessions, heap>>

\* the model call of the session's run returns
SessionModelReturn(session_id) ==
    /\ session_id \in DOMAIN sessions
    /\ LET se == sessions[session_id]
       IN /\ se.pc = "model_call"
          /\ \E calls \in SessionResponses(se.model_calls + 1) :
                /\ se.model_calls + 1 = MaxTurns => calls = <<>>
                /\ sessions' = [sessions EXCEPT ![session_id] =
                      IF calls = <<>>
                      THEN [WithMessages(se, <<AssistantMessage(calls)>>) EXCEPT
                               !.pc = "idle", !.model_calls = @ + 1]
                      ELSE [WithMessages(se, <<AssistantMessage(calls)>>) EXCEPT
                               !.pc = "dispatch", !.call = calls[1], !.model_calls = @ + 1]]
    /\ acted' = session_id
    /\ UNCHANGED <<agentVars, besideSessions, heap>>

\* the model call of the session's run raises: the run ends with an error event
SessionModelFail(session_id) ==
    /\ session_id \in DOMAIN sessions
    /\ sessions[session_id].pc = "model_call"
    /\ sessions' = [sessions EXCEPT ![session_id].pc = "idle",
                                    ![session_id].model_calls = @ + 1]
    /\ acted' = session_id
    /\ UNCHANGED <<agentVars, besideSessions, heap>>

\* the run comes to its tool call: it executes it, or the confirmation callback
\* of the session's websocket denies it or registers a future and waits
SessionDispatch(session_id) ==
    /\ session_id \in DOMAIN sessions
    /\ LET se == sessions[session_id]
           c == se.call
       IN /\ se.pc = "dispatch"
          /\ IF ~RequiresConfirm(c.name, se.agent.auto_allowed_tools)
             THEN /\ \E result \in {"success", "failure"} :
                        sessions' = [sessions EXCEPT ![session_id] =
                            NextTurn(WithMessages(se, ResultMessages(c.id, result)))]
                  /\ UNCHANGED heap
             ELSE IF ~check_tool_permission(DefaultConfig("interactive"), c.name, c.arg).allowed
             THEN /\ sessions' = [sessions EXCEPT ![session_id] =
                            NextTurn(WithMessages(se, DeniedMessages(c.id)))]
                  /\ UNCHANGED heap
             ELSE /\ sessions' = [sessions EXCEPT ![session_id].pc = "confirm_wait"]
                  /\ heap' = [heap EXCEPT ![se.pending_confirmations] = Put(@, c.id, "pending")]
    /\ acted' = session_id
    /\ UNCHANGED <<agentVars, besideSessions>>

\* a websocket of the session receives a confirm_response for an id that is in
\* session.pending_confirmations
SessionDecision(session_id) ==
    /\ session_id \in DOMAIN sessions
    /\ LET se == sessions[session_id]
       IN \E id \in DOMAIN PendingOf(session_id),
             action \in {"allow", "allow_all", "deny"},
             tool_name \in ClientToolNames :
            LET set == SetResult(PendingOf(session_id)[id],
                                 IF action = "deny" THEN "false" ELSE "true")
            IN /\ sessions' = [sessions EXCEPT ![session_id].agent.auto_allowed_tools =
                                  AfterAllowAll(@, action, tool_name)]
               /\ heap' = IF set = "InvalidStateError"
                          THEN heap
                          ELSE [heap EXCEPT ![se.pending_confirmations][id] = set]
    /\ acted' = session_id
    /\ UNCHANGED <<agentVars, besideSessions>>

\* wait_for(future, timeout=300.0) of the session's wait runs out
SessionTimeout(session_id) ==
    /\ session_id \in DOMAIN sessions
    /\ LET se == sessions[session_id]
       IN /\ se.pc = "confirm_wait"
          /\ se.call.id \in DOMAIN PendingOf(session_id)
          /\ PendingOf(session_id)[se.call.id] = "pending"
          /\ heap' = [heap EXCEPT ![se.pending_confirmations][se.call.id] = "cancelled"]
    /\ acted' = session_id
    /\ UNCHANGED <<agentVars, besideSessions, sessions>>

\* the callback of the session resumes, pops its entry and returns to the run
SessionWaitReturn(session_id) ==
    /\ session_id \in DOMAIN sessions
    /\ LET se == sessions[session_id]
           c == se.call
       IN /\ se.pc = "confirm_wait"
          /\ c.id \in DOMAIN PendingOf(session_id) => PendingOf(session_id)[c.id] # "pending"
          /\ heap' = [heap EXCEPT ![se.pending_confirmations] = Pop(@, c.id)]
          /\ IF c.id \in DOMAIN PendingOf(session_id) /\ CallbackResult(PendingOf(session_id)[c.id])
             THEN \E result \in {"success", "failure"} :
                    sessions' = [sessions EXCEPT ![session_id] =
                        NextTurn(WithMessages(se, ResultMessages(c.id, result)))]
             ELSE sessions' = [sessions EXCEPT ![session_id] =
                        NextTurn(WithMessages(se, DeniedMessages(c.id)))]
    /\ acted' = session_id
    /\ UNCHANGED <<agentVars, besideSessions>>

SessionsInit ==
    /\ config = DefaultConfig("interactive")
    /\ max_iterations = 1
    /\ AgentStart
    /\ strategy = "smart"
    /\ RouterStart
    /\ GateStart
    /\ NestedStart
    /\ ChannelStart
    /\ SessionStart
    /\ SelectStart
    /\ HandleStart

SessionsNext ==
    \/ \E s \in SessionIds : create_session(s)
    \/ \E s \in SessionIds : SessionMessage(s)
    \/ \E s \in SessionIds : SessionModelReturn(s)
    \/ \E s \in SessionIds : SessionModelFail(s)
    \/ \E s \in SessionIds : SessionDispatch(s)
    \/ \E s \in SessionIds : SessionDecision(s)
    \/ \E s \in SessionIds : SessionTimeout(s)
    \/ \E s \in SessionIds : SessionWaitReturn(s)

SessionsSpec == SessionsInit /\ [][SessionsNext]_vars

----------------------------------------------------------------------------
(* server/app.py: confirmation_callback and the confirm_response branch, with
   the identity of each future; the runs of the session that call the callback
   are those of the websockets attached to it, and the ids are those the
   provider put on its tool calls *)

\* the calls of confirmation_callback that get as far as create_future
MaxWaits == 3

\* tool_call.id as the provider delivers it; nothing makes it unique
ToolCallIds == 1..MaxToolCalls

\* lines 642-648: the gate allows the call; a future is created, stored under
\* tool_call_id, and the callback awaits it
CallbackWaits(t, id) ==
    /\ waits[t].pc = "idle"
    /\ Len(futures) < MaxWaits
    /\ futures' = Append(futures, "pending")
    /\ handles' = Put(handles, id, Len(futures) + 1)
    /\ waits' = [waits EXCEPT ![t] = [pc |-> "waiting", id |-> id, future |-> Len(futures) + 1]]
    /\ UNCHANGED <<agentVars, besideHandle>>

\* lines 676-688: a confirm_response for an id that is in the dict; an
\* InvalidStateError of set_result leaves the future as it is
HandleConfirmResponse(id, action, tool_name) ==
    /\ id \in DOMAIN handles
    /\ LET set == SetResult(futures[handles[id]], IF action = "deny" THEN "false" ELSE "true")
       IN /\ auto_allowed_tools' = AfterAllowAll(auto_allowed_tools, action, tool_name)
          /\ futures' = IF set = "InvalidStateError"
                        THEN futures
                        ELSE [futures EXCEPT ![handles[id]] = set]
    /\ UNCHANGED <<besideHandle, handles, waits, config, max_iterations, messages,
                   confirm_callback, pending_confirmations, conn, loop, nextId, runs, events,
                   executed, gate_queried, approved>>

\* line 648: wait_for runs out and cancels the future it awaits
WaitForTimeout(t) ==
    /\ waits[t].pc = "waiting"
    /\ futures[waits[t].future] = "pending"
    /\ futures' = [futures EXCEPT ![waits[t].future] = "cancelled"]
    /\ UNCHANGED <<agentVars, besideHandle, handles, waits>>

\* lines 649-653: the callback resumes with the result or the TimeoutError and
\* its finally pops tool_call_id
CallbackReturns(t) ==
    /\ waits[t].pc = "waiting"
    /\ futures[waits[t].future] # "pending"
    /\ handles' = Pop(handles, waits[t].id)
    /\ waits' = [waits EXCEPT ![t] = IdleWait]
    /\ UNCHANGED <<agentVars, besideHandle, futures>>

HandleNext ==
    \/ \E t \in Tasks, id \in ToolCallIds : CallbackWaits(t, id)
    \/ \E id \in ToolCallIds, action \in {"allow", "allow_all", "deny"},
          tool_name \in ClientToolNames : HandleConfirmResponse(id, action, tool_name)
    \/ \E t \in Tasks : WaitForTimeout(t)
    \/ \E t \in Tasks : CallbackReturns(t)

\* two websockets are attached to the session, as in ChannelInit
HandleSpec == ChannelInit /\ [][HandleNext]_vars

----------------------------------------------------------------------------
(* agent.py: the terminal events of Agent.run, with the text of the exception *)

\* str(e) of the exceptions a provider's call can raise: the provider is an
\* external collaborator and words its errors as it likes
ExceptionTexts == {"model call failed"} \cup { BudgetText(n) : n \in 1..MaxIter }

OutcomeNext ==
    \/ \E t \in Runners : StartRun(t)
    \/ \E t \in Runners : LoopHead(t)
    \/ \E t \in Runners : \E calls \in ReadResponses(nextId) : ModelResponse(t, calls)
    \/ \E t \in Runners : \E text \in ExceptionTexts : ModelRaises(t, text)
    \/ \E t \in Runners : Dispatch(t)
    \/ \E t \in Runners : Execute(t)

OutcomeSpec == Init /\ [][OutcomeNext]_vars

----------------------------------------------------------------------------
(* Properties of the conversation loop *)

IsPrefix(a, b) == Len(a) <= Len(b) /\ SubSeq(b, 1, Len(a)) = a

Last(q) == q[Len(q)]

\* the positions of the 'tool' messages that carry tool_call_id id
ToolMessagesFor(id) ==
    { j \in 1..Len(messages) : messages[j].role = "tool" /\ messages[j].tool_call_id = id }

\* no run is in the middle of the tool calls of a response
BetweenTurns == \A t \in Tasks : loop[t].pc \in {"idle", "loop_head", "model_call"}

\* the tool message of call id stands after assistant message i and before the
\* next assistant message
AnsweredInTurn(i, id) ==
    \E j \in ToolMessagesFor(id) :
        /\ j > i
        /\ \A k \in (i + 1)..(j - 1) : messages[k].role = "tool"

Ended(t) == loop[t].pc = "idle" /\ loop[t].outcome # "none"

C3_TimeoutDenies ==
    /\ [][\A t \in Tasks :
            LET id == Current(t).id IN
            loop[t].pc = "confirm_wait" =>
              /\ (pending_confirmations[id] = "pending"
                  /\ id \in DOMAIN pending_confirmations'
                  /\ pending_confirmations'[id] = "cancelled")
                    => loop[t].elapsed >= ConfirmTimeout
              /\ (pending_confirmations[id] = "cancelled" /\ loop'[t].pc # "confirm_wait")
                    => /\ messages' = messages \o <<ToolMessage(id, "User denied this tool execution.")>>
                       /\ id \notin DOMAIN pending_confirmations'
                       /\ executed' = executed
                       /\ loop'[t].pc = IF loop[t].idx < Len(loop[t].calls)
                                        THEN "dispatch" ELSE "loop_head"
                       /\ loop'[t].idx = IF loop[t].idx < Len(loop[t].calls)
                                         THEN loop[t].idx + 1 ELSE loop[t].idx
         ]_vars
    /\ \A t \in Tasks : (loop[t].pc = "confirm_wait") ~> (loop[t].pc # "confirm_wait")

C3_Witness ==
    \E t \in Tasks :
        /\ loop[t].pc = "dispatch"
        /\ loop[t].idx = 2
        /\ loop[t].waited = "cancelled"
        /\ Last(messages) = ToolMessage(loop[t].calls[1].id, "User denied this tool execution.")
        /\ \A tc \in executed : tc.id # loop[t].calls[1].id

EventsOf(type, id) ==
    { e \in UNION { SeqRange(events[t]) : t \in Tasks } : e.type = type /\ e.id = id }

\* C7: in permission mode 'auto' a file_write invocation gets verdict allow and
\* the loop emits no confirm_request event for it.
C7_AutoModeNoConfirmRequest ==
    config.mode = "auto" =>
        \A t \in Tasks : \A i \in 1..Len(events[t]) :
            (events[t][i].type = "tool_call" /\ events[t][i].tool_name = "file_write")
                => /\ check_tool_permission(config, "file_write", "/tmp/a").allowed
                   /\ EventsOf("confirm_request", events[t][i].id) = {}

\* C8: an invocation for which the permission gate's verdict is deny is never
\* executed by the loop, whether or not its tool requires confirmation.
C8_GateDeniedNeverExecuted ==
    \A tc \in executed : check_tool_permission(config, tc.name, tc.arg).allowed

\* C9: a tool that requires confirmation and is not auto-approved is executed
\* only after a confirm_request event for the invocation and a wait that
\* resolved to allow.
C9_ConfirmedBeforeExecuted ==
    \A tc \in executed :
        EventsOf("tool_call", tc.id) # {}
        /\ (\A e \in EventsOf("tool_call", tc.id) : e.content = "requires_confirmation")
            => /\ EventsOf("confirm_request", tc.id) # {}
               /\ tc.id \in approved

\* C10 as stated: every step leaves the previous message list a prefix of the
\* new one.
C10_AppendOnly == [][IsPrefix(messages, messages')]_vars

\* C10 amended: every step leaves the previous message list a prefix of the new
\* one, except clear_history, which is taken between runs and replaces the list
\* by the empty list and empties the auto-approved set, changing nothing else.
C10_AppendOnlyExceptClear ==
    [][\/ IsPrefix(messages, messages')
       \/ /\ messages' = <<>>
          /\ auto_allowed_tools' = {}
          /\ UNCHANGED <<loop, events, pending_confirmations, executed, conn, runs>>
      ]_vars

C10_Witness ==
    /\ runs = 2
    /\ Len(messages) >= 5
    /\ messages[1].role = "user"
    /\ \E i \in 2..Len(messages) : messages[i].role = "user"
    /\ \E i \in 1..Len(messages) : messages[i].role = "tool"

\* the error event of a failed model call
ModelErrorEvent == Event("error", 0, "none", "model call failed")

\* C13: when a model call of Agent.run fails, the run ends in that step: the
\* single error event is emitted and nothing else changes; from then on the
\* ended run makes no model call, executes no tool and emits no event (the
\* loop's state and its events stay as they are until a new user message
\* starts a new run), and the error event is the last and only error event.
C13_ModelFailureEndsRun ==
    /\ [][\A t \in Tasks :
            /\ (loop[t].pc = "model_call" /\ loop'[t].outcome = "model_error") =>
                  /\ loop'[t].pc = "idle"
                  /\ loop'[t].model_calls = loop[t].model_calls
                  /\ events'[t] = events[t] \o <<ModelErrorEvent>>
                  /\ UNCHANGED <<messages, executed, pending_confirmations, nextId>>
            /\ loop[t].outcome = "model_error" =>
                  \/ /\ loop'[t] = loop[t]
                     /\ events'[t] = events[t]
                     /\ executed' = executed
                  \/ /\ loop'[t].pc = "loop_head"
                     /\ loop'[t].outcome = "none"
                     /\ runs' = runs + 1
         ]_vars
    /\ [](\A t \in Tasks :
            loop[t].outcome = "model_error" =>
                /\ Last(events[t]) = ModelErrorEvent
                /\ Cardinality({ i \in 1..Len(events[t]) : events[t][i].type = "error" }) = 1)

C13_Witness ==
    \E t \in Tasks :
        /\ Ended(t)
        /\ loop[t].outcome = "model_error"
        /\ loop[t].model_calls = 2
        /\ executed # {}
        /\ Last(events[t]) = ModelErrorEvent

----------------------------------------------------------------------------
(* Properties of the router *)

\* the positions of call.attempts at which provider p was called
CallsOf(p) == { i \in 1..Len(call.attempts) : call.attempts[i].provider = p }

\* provider p was called in the current call and raised
AttemptedAndFailed(p) == \E i \in CallsOf(p) : ~call.attempts[i].ok

\* C5: when the first provider called in a call_with_fallback (P1) raised and
\* the first other provider called after it (P2) returned, the call returns
\* the response of P2, and P1 was called exactly once in that call.
C5_FallbackReturnsNextProvider ==
    (call.attempts # <<>> /\ ~call.attempts[1].ok) =>
        LET P1 == call.attempts[1].provider
            others == { i \in 1..Len(call.attempts) : call.attempts[i].provider # P1 }
            second == CHOOSE i \in others : \A j \in others : i <= j
        IN  (others # {} /\ call.attempts[second].ok) =>
                /\ call.pc = "returned"
                /\ call.result = Response(call.attempts[second].provider)
                /\ Cardinality(CallsOf(P1)) = 1

C5_Witness ==
    /\ call.pc = "returned"
    /\ Len(call.attempts) = 2
    /\ ~call.attempts[1].ok
    /\ call.attempts[2].ok
    /\ call.attempts[1].name \in SeqRange(fallback_order)
    /\ call.result = Response(call.attempts[2].provider)

\* C6: on a router with at least one registered provider (a router without any
\* raises ValueError in select before it calls a provider) call_with_fallback
\* raises the aggregate RuntimeError exactly when every registered provider was
\* called in this call and raised; no provider is called twice in a call; a
\* call never raises while a registered provider is up; and every call ends,
\* with a response or with an error.
C6_AggregateFailureIffAllFailed ==
    /\ [](/\ call.result = RuntimeError =>
                 \A p \in Registered : AttemptedAndFailed(p)
          /\ (call.pc # "calling" /\ Registered # {}
                 /\ \A p \in Registered : AttemptedAndFailed(p)) =>
                 call.result = RuntimeError
          /\ \A p \in Registered : Cardinality(CallsOf(p)) <= 1
          /\ call.pc = "raised" => Registered \cap healthy = {})
    /\ (call.pc = "calling") ~> (call.pc \in {"returned", "raised"})

C6_Witness ==
    /\ call.result = RuntimeError
    /\ Len(models) >= 2
    /\ Len(call.attempts) = Len(models)
    /\ "m9" \in SeqRange(call.models_to_try)

----------------------------------------------------------------------------
(* Properties of the permission gate *)

\* C14: the gate's decision is a pure function: two evaluations with the same
\* tool name, arguments, mode and lists return the same verdict and the same
\* reason, whatever happened in between.
C14_GateIsPureFunction ==
    \A i, j \in 1..Len(decisions) :
        ( /\ decisions[i].tool_name = decisions[j].tool_name
          /\ decisions[i].arg = decisions[j].arg
          /\ decisions[i].cfg = decisions[j].cfg )
            => decisions[i].verdict = decisions[j].verdict

\* the path a decision's path argument pointed to when the decision was taken
TargetOf(d) ==
    IF d.arg \in DOMAIN d.fs /\ d.fs[d.arg] # "none" THEN d.fs[d.arg] ELSE d.arg

PathTools == {"file_read", "file_write", "file_list"}

\* C14 as amended: the gate's verdict and reason are determined by the tool
\* name, the arguments, the mode, the lists and the symbolic links of the file
\* system: two evaluations under the same links agree, a path is judged as the
\* path it points to, a command is judged the same under all links, and an
\* evaluation changes no state.
C14_GateIsFunctionOfLinks ==
    /\ [](\A i, j \in 1..Len(decisions) :
            ( /\ decisions[i].tool_name = decisions[j].tool_name
              /\ decisions[i].cfg = decisions[j].cfg )
                => /\ ( /\ decisions[i].arg = decisions[j].arg
                        /\ decisions[i].fs = decisions[j].fs )
                        => decisions[i].verdict = decisions[j].verdict
                   /\ ( /\ decisions[i].tool_name \in PathTools
                        /\ TargetOf(decisions[i]) = TargetOf(decisions[j]) )
                        => decisions[i].verdict = decisions[j].verdict
                   /\ ( /\ decisions[i].tool_name \notin PathTools
                        /\ decisions[i].arg = decisions[j].arg )
                        => decisions[i].verdict = decisions[j].verdict)
    /\ [][decisions' # decisions =>
            /\ UNCHANGED <<agentVars, routerVars, links, nestedVars, channelVars>>
            /\ SubSeq(decisions', 1, Len(decisions)) = decisions]_vars

\* the same path was allowed as a plain file and denied as a link into a blocked
\* directory, and a path is denied under its own name
C14_Witness ==
    \E i, j \in 1..Len(decisions) :
        /\ decisions[i].tool_name = "file_read" /\ decisions[j].tool_name = "file_read"
        /\ decisions[i].arg = "/tmp/a" /\ decisions[j].arg = "/home/u/.ssh/id"
        /\ decisions[i].fs["/tmp/a"] = "/home/u/.ssh/id"
        /\ ~decisions[i].verdict.allowed /\ ~decisions[j].verdict.allowed
        /\ decisions[i].verdict.pattern = "/home/u/.ssh/**"

\* the command, as it was passed, holds the blocked entry
HoldsBlocked(command, blocked) == IsSubstring(Text(blocked), Text(command))

\* C15: in interactive mode a shell command that contains an entry of the
\* blocked list is denied, and the reason names a blocked entry the command
\* contains, whatever the allow-list and the dangerous patterns say.
C15_BlockedSubstringDenied ==
    \A i \in 1..Len(decisions) :
        LET d == decisions[i]
            held == { b \in SeqRange(d.cfg.blocked_commands) : HoldsBlocked(d.arg, b) }
        IN ( /\ d.cfg.mode = "interactive"
             /\ d.tool_name = "bash_exec"
             /\ held # {} )
               => /\ ~d.verdict.allowed
                  /\ d.verdict.reason = "Command contains blocked pattern"
                  /\ d.verdict.pattern \in held

----------------------------------------------------------------------------
(* Properties of the delegation *)

\* the positions of the tool messages for tool call id in the parent's history
DelegationMessages(id) ==
    { k \in 1..Len(messages) : messages[k].role = "tool" /\ messages[k].tool_call_id = id }

\* C11: a delegation whose nested model calls all returned and whose ceiling of
\* 15 was not used up leaves exactly one tool message for the invocation in the
\* parent's history, and it carries the terminal text of the nested loop.
C11_ParentGetsTerminalText ==
    \A i \in 1..Len(returned) :
        returned[i].kind \notin {"ModelError", "budget"} =>
            /\ returned[i].kind = "result"
            /\ \E k \in 1..Len(messages) :
                 /\ DelegationMessages(returned[i].id) = {k}
                 /\ messages[k].content = returned[i].text

NestedFailures == {"ModelError", "AttributeError", "budget"}

\* a delegation has failed and the parent's run has not made its next model call yet
AfterFailedDelegation(t) ==
    /\ returned # <<>>
    /\ Last(returned).kind \in NestedFailures
    /\ loop[t].pc \in {"dispatch", "loop_head"}

\* C12: a failure inside the nested loop reaches the parent as one failed tool
\* result for the delegation invocation; the step leaves the parent's run alive,
\* the parent's run ends with an error only at its own model call or at its own
\* ceiling, and after the failure it reaches its next model call or that ceiling.
C12_NestedFailureIsToolFailure ==
    /\ [][\A t \in Runners :
            /\ ( /\ Len(returned') = Len(returned) + 1
                 /\ Last(returned').kind \in NestedFailures
                 /\ loop[t].pc \in {"execute", "delegated"} )
                 => /\ messages' = messages \o
                                     <<ToolMessage(Current(t).id, Last(returned').text)>>
                    /\ events'[t] = events[t] \o
                                     <<Event("tool_result", Current(t).id,
                                             Current(t).name, "failure")>>
                    /\ loop'[t].pc \in {"dispatch", "loop_head"}
                    /\ loop'[t].outcome = "none"
            /\ (loop[t].outcome = "none" /\ loop'[t].outcome = "model_error")
                 => loop[t].pc = "model_call"
            /\ (loop[t].outcome = "none" /\ loop'[t].outcome = "budget")
                 => loop[t].pc = "loop_head" /\ loop[t].iteration = max_iterations
         ]_vars
    /\ \A t \in Runners :
         AfterFailedDelegation(t) ~> (loop[t].pc = "model_call" \/ loop[t].outcome = "budget")

\* both kinds of failure happened in one turn and the parent called its model again
C12_Witness ==
    /\ Len(returned) = 2
    /\ { returned[1].kind, returned[2].kind } = {"ModelError", "AttributeError"}
    /\ runs = 1
    /\ loop["t1"].pc = "model_call"
    /\ loop["t1"].model_calls = 2
    /\ Cardinality({ k \in 1..Len(messages) : messages[k].role = "tool" }) = 2

----------------------------------------------------------------------------
(* Properties of the websocket handlers *)

\* the tool calls the model has asked for in this conversation
CallsAsked ==
    UNION { SeqRange(messages[k].tool_calls) : k \in 1..Len(messages) }

\* the tool names of the tool calls with the id
NamesOf(id) == { tc.name : tc \in { x \in CallsAsked : x.id = id } }

\* the confirm_request events of all runs for tool calls of the tool
RequestsFor(name) ==
    { e \in UNION { SeqRange(events[t]) : t \in Tasks } :
        e.type = "confirm_request" /\ e.tool_name = name }

\* C16: once a pending confirmation was resolved by allow_all, the name of its
\* tool is in the auto-approved set (it is added before the tool is executed),
\* and no later invocation of that tool gets a confirm_request.
C16_AllowAllRemembersTool ==
    /\ [](\A id \in allowed_all : NamesOf(id) \subseteq auto_allowed_tools)
    /\ [][\A id \in allowed_all : \A name \in NamesOf(id) :
            RequestsFor(name)' \subseteq RequestsFor(name)]_vars

\* C17: a decision sent for the pending id during the wait and before the
\* timeout resolves the wait: the wait for that id is not ended by the timeout.
C17_DecisionInTimeResolvesWait ==
    \A id \in decided :
        id \in DOMAIN pending_confirmations => pending_confirmations[id] # "cancelled"

\* C18: at most one run of the session's agent is in flight at any time.
C18_OneRunPerSession ==
    Cardinality({ t \in Tasks : loop[t].pc # "idle" }) <= 1

\* C20: once a cancel was handled during a run, that run yields no further
\* event and the session holds no pending confirmation.
C20_CancelStopsRun ==
    /\ [](cancelled_run # 0 /\ cancelled_run = runs => pending_confirmations = << >>)
    /\ [][(cancelled_run # 0 /\ cancelled_run = runs /\ runs' = runs /\ cancelled_run' = cancelled_run)
            => events' = events]_vars

----------------------------------------------------------------------------
(* Properties of the sessions *)

\* what the spec calls the state of a conversation: history, auto-approved
\* set and pending confirmations
View(session_id) ==
    [messages              |-> sessions[session_id].agent.messages,
     auto_allowed_tools    |-> sessions[session_id].agent.auto_allowed_tools,
     pending_confirmations |-> PendingOf(session_id)]

\* C19: no operation on one session (its creation, a user message, a model
\* answer, a tool execution, a confirmation decision including allow_all, a
\* timeout) changes the message history, the auto-approved set or the pending
\* confirmations of another session, in any interleaving of the two sessions.
C19_SessionsIndependent ==
    [][\A s \in DOMAIN sessions :
          s # acted' => s \in DOMAIN sessions' /\ View(s)' = View(s)]_vars

\* an allow_all for tool_call 1 was just handled in s1 while s2 waits for the
\* decision on its own tool_call 1 with nothing auto-approved
C19_Witness ==
    /\ DOMAIN sessions = SessionIds
    /\ acted = "s1"
    /\ "file_write" \in sessions["s1"].agent.auto_allowed_tools
    /\ 1 \in DOMAIN PendingOf("s1") /\ PendingOf("s1")[1] = "true"
    /\ sessions["s2"].agent.auto_allowed_tools = {}
    /\ sessions["s2"].pc = "confirm_wait"
    /\ 1 \in DOMAIN PendingOf("s2") /\ PendingOf("s2")[1] = "pending"

----------------------------------------------------------------------------
(* Properties of the terminal outcomes *)

\* the terminal event of a run that used up its iterations
BudgetErrorEvent == Event("error", 0, "none", BudgetText(max_iterations))

\* C21: a run that ended for another reason than budget exhaustion (a failed
\* model call, or after failed tool executions) did not end with the terminal
\* event of budget exhaustion: a caller can tell the two apart.
C21_BudgetErrorDistinguishable ==
    \A t \in Tasks :
        Ended(t) /\ loop[t].outcome # "budget" => Last(events[t]) # BudgetErrorEvent

----------------------------------------------------------------------------
(* Properties of ModelRouter.select *)

\* the rules of selection s whose condition holds of its task
MatchesOf(s) ==
    { i \in 1..Len(s.rules) : evaluate_rule(s.rules[i].condition, analyze(s.message)) }

\* those of them that name a registered model
RegisteredMatchesOf(s) ==
    { i \in MatchesOf(s) : Has(s.models, s.rules[i].model_name) }

\* rule i of selection s decided: it has the highest priority within hits, its
\* provider was returned and no usage count moved (the strategy was not consulted)
DecidedBy(s, i, hits) ==
    /\ \A j \in hits : s.rules[j].priority <= s.rules[i].priority
    /\ Has(s.models, s.rules[i].model_name)
    /\ s.provider = InfoOf(s.models, s.rules[i].model_name).provider
    /\ s.after = s.before

\* C22 as stated: when at least one rule matches the task, the provider named by
\* the matching rule of highest priority is returned and the strategy is not
\* consulted.
C22_HighestMatchingRuleDecides ==
    \A k \in 1..Len(selections) :
        LET s == selections[k]
        IN  s.models # <<>> /\ MatchesOf(s) # {} =>
                \E i \in MatchesOf(s) : DecidedBy(s, i, MatchesOf(s))

\* C22 amended: among the matching rules that name a registered model the one
\* of highest priority decides and the strategy is not consulted; the strategy
\* is consulted (and the usage count of its choice moves) exactly when no
\* matching rule names a registered model.
C22_HighestRegisteredMatchDecides ==
    \A k \in 1..Len(selections) :
        LET s == selections[k]
            hits == RegisteredMatchesOf(s)
        IN  s.models # <<>> =>
                IF hits # {}
                THEN \E i \in hits : DecidedBy(s, i, hits)
                ELSE /\ s.after # s.before
                     /\ \E n \in 1..Len(s.models) :
                           /\ s.provider = s.models[n].provider
                           /\ s.after = [s.before EXCEPT ![s.models[n].name] = @ + 1]

\* two rules match, the one of higher priority names a model that is not
\* registered, and the provider of the other was returned
C22_Witness ==
    \E k \in 1..Len(selections) :
        LET s == selections[k]
        IN  \E i \in MatchesOf(s), j \in RegisteredMatchesOf(s) :
                /\ ~Has(s.models, s.rules[i].model_name)
                /\ s.rules[i].priority > s.rules[j].priority
                /\ s.provider = InfoOf(s.models, s.rules[j].model_name).provider

----------------------------------------------------------------------------
(* Properties of the denial *)

\* the future of a wait that ended without an approval: an explicit deny sets
\* it to False, the timeout cancels it
Refusals == {"false", "cancelled"}

\* the loop record without the note of how its last wait ended
Unnoted(l) == [l EXCEPT !.waited = "none"]

\* C23: a confirmation timeout is treated as an explicit deny. The step that
\* refuses (the deny decision or the timeout) changes nothing but the future,
\* and the return of the callback from a refused wait does the same in both
\* cases: it removes the pending entry, appends the one denial tool message,
\* emits the one denied tool_result event, executes nothing, leaves the
\* auto-approved set alone and moves the loop to its next tool call.
C23_TimeoutIsDeny ==
    [][/\ \A id \in DOMAIN pending_confirmations :
            (/\ pending_confirmations[id] = "pending"
             /\ id \in DOMAIN pending_confirmations'
             /\ pending_confirmations'[id] \in Refusals) =>
                UNCHANGED <<messages, events, executed, auto_allowed_tools, approved>>
       /\ \A t \in Tasks :
            (/\ loop[t].pc = "confirm_wait"
             /\ loop'[t].pc # "confirm_wait"
             /\ pending_confirmations[Current(t).id] \in Refusals) =>
                /\ pending_confirmations' = Pop(pending_confirmations, Current(t).id)
                /\ messages' = messages \o
                       <<ToolMessage(Current(t).id, "User denied this tool execution.")>>
                /\ events'[t] = events[t] \o
                       <<Event("tool_result", Current(t).id, "none", "denied")>>
                /\ Unnoted(loop'[t]) = Unnoted(Advance(loop[t]))
                /\ loop'[t].pc # "execute"
                /\ UNCHANGED <<executed, auto_allowed_tools, approved>>
      ]_vars

\* the wait for the second tool call has timed out and the callback has
\* returned: both calls of the response ended with the denial message
C23_Witness ==
    \E t \in Tasks :
        /\ loop[t].waited = "cancelled"
        /\ Len(loop[t].calls) = 2
        /\ Len(messages) >= 2
        /\ messages[Len(messages)] =
               ToolMessage(loop[t].calls[2].id, "User denied this tool execution.")
        /\ messages[Len(messages) - 1] =
               ToolMessage(loop[t].calls[1].id, "User denied this tool execution.")
        /\ executed = {}

----------------------------------------------------------------------------
(* Properties of the event sequence of a run *)

\* the positions of the terminal events among the events of the run of task t
TerminalPositions(t) ==
    { i \in 1..Len(events[t]) : events[t][i].type \in {"done", "error"} }

\* the run of task t is under way
Running(t) == loop[t].pc # "idle"

Rank(type) ==
    CASE type = "tool_call" -> 1
      [] type = "confirm_request" -> 2
      [] type = "tool_result" -> 3
      [] OTHER -> 0

\* the positions of the events of the run of task t that belong to tool call id
EventPositions(t, id) == { i \in 1..Len(events[t]) : events[t][i].id = id }

\* C25: within a turn the tool calls are processed strictly in the order the
\* model emitted them. The events of one call come as tool_call, then
\* confirm_request (if any), then tool_result, each at most once; all events of
\* call k stand before the events of call k+1; no event or execution of call
\* k+1 happens before the tool message and the tool_result event of call k are
\* there (the history is looked at while the run is under way: clear_history
\* empties it between runs); and the tool messages stand in the history in
\* emission order.
C25_InvocationsInEmissionOrder ==
    \A t \in Tasks :
        LET calls == loop[t].calls
        IN  /\ \A k \in 1..Len(calls) :
                  /\ \A i, j \in EventPositions(t, calls[k].id) :
                        i < j => Rank(events[t][i].type) < Rank(events[t][j].type)
                  /\ \A i \in EventPositions(t, calls[k].id) : Rank(events[t][i].type) > 0
                  /\ EventPositions(t, calls[k].id) # {} =>
                        \E i \in EventPositions(t, calls[k].id) : events[t][i].type = "tool_call"
            /\ \A k \in 1..(Len(calls) - 1) :
                  /\ \A i \in EventPositions(t, calls[k].id), j \in EventPositions(t, calls[k + 1].id) :
                        i < j
                  /\ (EventPositions(t, calls[k + 1].id) # {} \/ calls[k + 1] \in executed) =>
                        /\ Running(t) => ToolMessagesFor(calls[k].id) # {}
                        /\ \E i \in EventPositions(t, calls[k].id) :
                              events[t][i].type = "tool_result"
                  /\ \A i \in ToolMessagesFor(calls[k].id), j \in ToolMessagesFor(calls[k + 1].id) :
                        i < j
                  /\ ToolMessagesFor(calls[k + 1].id) # {} => ToolMessagesFor(calls[k].id) # {}

\* both calls of a response are done, the first after a confirmation: five
\* events in order and the two tool messages in emission order
C25_Witness ==
    \E t \in Tasks :
        /\ Len(loop[t].calls) = 2
        /\ Cardinality(EventPositions(t, loop[t].calls[1].id)) = 3
        /\ Cardinality(EventPositions(t, loop[t].calls[2].id)) = 2
        /\ loop[t].calls[1] \in executed
        /\ loop[t].calls[2] \in executed
        /\ ToolMessagesFor(loop[t].calls[1].id) # {}
        /\ ToolMessagesFor(loop[t].calls[2].id) # {}

----------------------------------------------------------------------------
(* Properties of the events of a delegation *)

ClosingTypes == {"done", "error"}

\* the positions of the closing events among the sub-agent events
ClosingPositions == { i \in 1..Len(sub_events) : sub_events[i].event_type \in ClosingTypes }

\* the position of the closing event of the k-th delegation that has returned
ClosingOf(k) ==
    CHOOSE i \in ClosingPositions : Cardinality({ j \in ClosingPositions : j <= i }) = k

----------------------------------------------------------------------------
(* Properties of the conversation of a nested loop *)

\* what a nested loop may start from for the delegation the run of t is at
FreshHistories(t) == { NestedHistory(Current(t).arg, context) : context \in Contexts }

\* C27: a delegation starts its nested loop on a history of one user message
\* made of the task and the optional context, whatever the parent's history and
\* the earlier delegations held; the nested history holds no message of the
\* parent; a step of the nested loop leaves the parent's auto-approved set and
\* pending confirmations alone and adds nothing to the parent's history but the
\* tool message Agent.run appends once the delegation has returned.
C27_NestedConversationFresh ==
    /\ [](sub.pc # "idle" =>
            /\ sub.messages \in FreshHistories(sub.caller)
            /\ \A k \in 1..Len(sub.messages) : sub.messages[k] \notin SeqRange(messages))
    /\ [][/\ (sub.pc = "idle" /\ sub'.pc # "idle") =>
                \E t \in Runners :
                    /\ loop[t].pc = "execute"
                    /\ sub'.caller = t
                    /\ sub'.messages \in FreshHistories(t)
                    /\ messages' = messages
          /\ sub.pc # "idle" =>
                /\ auto_allowed_tools' = auto_allowed_tools
                /\ pending_confirmations' = pending_confirmations
                /\ \/ messages' = messages /\ sub'.pc # "idle"
                   \/ /\ sub'.pc = "idle"
                      /\ Len(returned') = Len(returned) + 1
                      /\ messages' = messages \o
                            <<ToolMessage(Last(returned').id, Last(returned').text)>>
         ]_vars

\* the second delegation of a response is under way with a context, after the
\* first, with another task, has returned into the parent's history
C27_Witness ==
    /\ Len(returned) = 1
    /\ sub.pc = "model_call"
    /\ sub.messages = NestedHistory("fix Y", "repo R")
    /\ \E k \in 1..Len(messages) : messages[k].role = "tool"
    /\ \E k \in 1..Len(messages) :
          \E i \in 1..Len(messages[k].tool_calls) : messages[k].tool_calls[i].arg = "write X"

----------------------------------------------------------------------------
(* Properties of the tool calls of a nested loop *)

\* the capabilities the nested model asks for
NestedToolNames ==
    UNION { { r.tool_calls[i].name : i \in 1..Len(r.tool_calls) } : r \in NestedResponses }

\* the nested model has answered with tool calls and the step deals with them
NestedToolCallsHandled ==
    /\ sub.pc = "model_call"
    /\ \/ sub'.pc = "tool_execute"
       \/ /\ Len(returned') = Len(returned) + 1
          /\ Last(returned').kind = "AttributeError"

----------------------------------------------------------------------------
(* Properties of the dict of pending confirmations *)

\* the waits under way for tool_call id
WaitsFor(id) == { t \in Tasks : waits[t].pc = "waiting" /\ waits[t].id = id }

\* C29: the dict holds one future per id, that of the one wait under way for
\* the id; a wait that starts finds no entry under its id, a wait that ends
\* removes the entry of its own future and no other, and the dict is empty when
\* no wait is under way.
C29_OneHandlePerId ==
    /\ [](/\ \A id \in ToolCallIds : Cardinality(WaitsFor(id)) <= 1
          /\ \A id \in DOMAIN handles :
                \E t \in WaitsFor(id) : waits[t].future = handles[id]
          /\ (\A t \in Tasks : waits[t].pc = "idle") => handles = << >>)
    /\ [][\A t \in Tasks :
            /\ (waits[t].pc = "idle" /\ waits'[t].pc = "waiting") =>
                  /\ waits'[t].id \notin DOMAIN handles
                  /\ handles' = Put(handles, waits'[t].id, waits'[t].future)
            /\ (waits[t].pc = "waiting" /\ waits'[t].pc = "idle") =>
                  /\ waits[t].id \in DOMAIN handles
                  /\ handles[waits[t].id] = waits[t].future
                  /\ handles' = Pop(handles, waits[t].id)
         ]_vars

----------------------------------------------------------------------------
(* Properties of the order of gate and confirmation *)

\* the tool calls of the current response of task t that were put to the gate
\* and that it denied
GateDenied(t) ==
    { tc \in SeqRange(loop[t].calls) :
        /\ tc.id \in gate_queried
        /\ ~check_tool_permission(config, tc.name, tc.arg).allowed }

\* C30: for a tool call the gate denies, the run emits no confirm_request event
\* and no future is stored in the pending confirmations.
C30_NoRequestForGateDenied ==
    \A t \in Tasks :
        \A tc \in GateDenied(t) :
            /\ \A i \in EventPositions(t, tc.id) : events[t][i].type # "confirm_request"
            /\ tc.id \notin DOMAIN pending_confirmations

----------------------------------------------------------------------------
(* Properties of the order of the fallback *)

\* the place of a registered name in self.models
RegistrationIndex(name) == CHOOSE i \in 1..Len(models) : models[i].name = name

\* the first place of a name in fallback_order, 0 if it is not there
FallbackIndex(name) ==
    LET at == { i \in 1..Len(fallback_order) : fallback_order[i] = name }
    IN  IF at = {} THEN 0 ELSE CHOOSE i \in at : \A j \in at : i <= j

\* the providers are called one after the other: a call is made only after
\* every call before it has raised, no name is called twice, and the
\* aggregate failure is raised only when every registered name has been called
OneAtATime ==
    LET a == call.attempts
    IN  /\ \A i \in 1..(Len(a) - 1) : ~a[i].ok
        /\ \A i, j \in 1..Len(a) : i < j => a[i].name # a[j].name
        /\ call.result = RuntimeError =>
              { a[i].name : i \in 1..Len(a) } = SeqRange(Names(models))

\* C31 as stated: behind the selected provider the remaining registered
\* providers are called one at a time in registration order.
C31_RemainingInRegistrationOrder ==
    /\ OneAtATime
    /\ \A i, j \in 2..Len(call.attempts) :
          i < j => RegistrationIndex(call.attempts[i].name)
                     < RegistrationIndex(call.attempts[j].name)

\* name a is tried before name b when neither is the selected one
TriedBefore(a, b) ==
    IF FallbackIndex(a) # 0
    THEN FallbackIndex(b) = 0 \/ FallbackIndex(a) < FallbackIndex(b)
    ELSE FallbackIndex(b) = 0 /\ RegistrationIndex(a) < RegistrationIndex(b)

\* C31 amended: behind the selected provider the remaining registered
\* providers are called one at a time, those named in fallback_order first, in
\* the order of their first mention there, then the others in registration order.
C31_RemainingInFallbackThenRegistrationOrder ==
    /\ OneAtATime
    /\ \A i, j \in 2..Len(call.attempts) :
          i < j => TriedBefore(call.attempts[i].name, call.attempts[j].name)

\* three providers are registered, the fallback order names the third before
\* the first, and the call fell back twice: from m2 to m3 and from m3 to m1
C31_Witness ==
    /\ Names(models) = <<"m1", "m2", "m3">>
    /\ fallback_order = <<"m3", "m1">>
    /\ Len(call.attempts) = 3
    /\ call.attempts[1].name = "m2"
    /\ call.attempts[2].name = "m3"
    /\ call.attempts[3].name = "m1"
    /\ call.pc = "returned"

----------------------------------------------------------------------------
(* Properties of the records of the registered providers *)

\* the usage counter of every registered name stays or grows
CountersNeverDecrease ==
    [][\A name \in DOMAIN usage_counts :
          /\ name \in DOMAIN usage_counts'
          /\ usage_counts'[name] >= usage_counts[name]]_vars

\* C32: over the operations of the router in any order, the usage counter of a
\* registered provider never decreases and its ModelInfo stays as registered.
C32_RecordsImmutableButCounter ==
    [][/\ \A name \in DOMAIN usage_counts :
             /\ name \in DOMAIN usage_counts'
             /\ usage_counts'[name] >= usage_counts[name]
       /\ \A i \in 1..Len(models) :
             /\ i <= Len(models')
             /\ models'[i] = models[i]]_vars

----------------------------------------------------------------------------
(* Properties of the load-balance strategy *)

\* C33: under load-balance, with the providers registered before the first
\* selection, a select that no rule matches returns a provider whose usage
\* counter is lowest among the registered ones and adds one to that counter;
\* the usage counters of any two providers differ by at most 1.
C33_LeastUsedKeepsCountersLevel ==
    /\ \A k \in 1..Len(selections) :
          LET s == selections[k]
          IN  (s.strategy = "load-balance" /\ s.models # <<>> /\ MatchesOf(s) = {}) =>
                  \E n \in 1..Len(s.models) :
                      /\ s.provider = s.models[n].provider
                      /\ \A o \in DOMAIN s.before : s.before[s.models[n].name] <= s.before[o]
                      /\ s.after = [s.before EXCEPT ![s.models[n].name] = @ + 1]
    /\ \A a, b \in DOMAIN usage_counts : usage_counts[a] - usage_counts[b] <= 1

\* three providers, four selections that no rule matched: the first provider
\* was returned twice, the others once
C33_Witness ==
    /\ Len(models) = 3
    /\ Len(selections) = 4
    /\ \A k \in 1..4 : MatchesOf(selections[k]) = {}
    /\ usage_counts[models[1].name] = 2
    /\ usage_counts[models[2].name] = 1
    /\ usage_counts[models[3].name] = 1

----------------------------------------------------------------------------
(* Properties of the smart strategy *)

\* the strategy the smart strategy stands for on a task
StandsFor(task) ==
    IF task.complexity = "simple" THEN "cost-optimized"
    ELSE IF task.type \in {"code", "reasoning"} \/ task.complexity = "complex"
         THEN "quality-first"
    ELSE IF task.requires_vision THEN "capability-match"
    ELSE "quality-first"

\* what a router of that strategy returns with the tables as they are
ChosenUnder(name, task) ==
    CASE name = "cost-optimized"   -> select_cheapest(task)
      [] name = "quality-first"    -> select_best_quality(task)
      [] name = "capability-match" -> select_by_capability(task)

\* C34: a selection under the smart strategy that no rule decides returns the
\* provider that cost-optimized returns when the complexity is simple, the one
\* quality-first returns when the type is code or reasoning or the complexity
\* is complex, the one capability-match returns when an image is required and
\* neither holds, and the one quality-first returns otherwise; the usage
\* counter of that provider moves.
C34_SmartStandsForStrategies ==
    \A k \in 1..Len(selections) :
        LET s == selections[k]
            task == analyze(s.message)
            name == ChosenUnder(StandsFor(task), task)
        IN  (s.strategy = "smart" /\ s.models # <<>> /\ RegisteredMatchesOf(s) = {}) =>
                /\ s.models = models
                /\ s.provider = InfoOf(models, name).provider
                /\ s.after = [s.before EXCEPT ![name] = @ + 1]

\* a task of medium complexity with an image, neither code nor reasoning:
\* capability-match returned m2 where quality-first returns m4
C34_Witness ==
    \E k \in 1..Len(selections) :
        LET s == selections[k]
            task == analyze(s.message)
        IN  /\ s.strategy = "smart"
            /\ RegisteredMatchesOf(s) = {}
            /\ StandsFor(task) = "capability-match"
            /\ Has(models, "m2")
            /\ Has(models, "m4")
            /\ s.provider = InfoOf(models, "m2").provider
            /\ select_best_quality(task) = "m4"

----------------------------------------------------------------------------
\* The path gate under several path lists

\* interactive configurations whose path lists differ: the default lists, no
\* allow-list, an allow-list that covers a blocked directory, and no lists
PathConfigs ==
    { [DefaultConfig("interactive") EXCEPT !.allowed_paths = a, !.blocked_paths = b] :
        a \in { <<>>, DefaultConfig("interactive").allowed_paths, <<"/home/u/**", "/tmp/**">> },
        b \in { <<>>, DefaultConfig("interactive").blocked_paths } }

PathArguments == {"/tmp/a", "/home/u/.ssh/id", "/home/u/projects/b", "/etc/passwd"}

PathQueries ==
    { [tool_name |-> n, arg |-> q] : n \in {"file_read", "file_write", "file_list"},
                                     q \in PathArguments }

PathInit ==
    /\ config \in PathConfigs
    /\ max_iterations = 1
    /\ AgentStart
    /\ strategy = "smart"
    /\ RouterStart
    /\ GateStart
    /\ NestedStart
    /\ ChannelStart
    /\ SessionStart
    /\ SelectStart
    /\ HandleStart

PathNext ==
    \/ \E q \in PathQueries : Decide(q)
    \/ \E target \in {"none", "/home/u/.ssh/id"} : RunLinkCommand(target)

PathSpec == PathInit /\ [][PathNext]_vars

\* the path of decision d, as resolved when the decision was taken, matches an
\* entry of list
MatchesAny(d, list) == \E p \in SeqRange(list) : FnMatch(TargetOf(d), p)

----------------------------------------------------------------------------
\* The command gate in interactive mode

CommandConfigs == { c \in GateConfigs : c.mode = "interactive" }

\* commands with and without a blocked entry, a dangerous pattern and a listed
\* first word; one names its program by a path, one is empty
CommandArguments ==
    {"ls -la", "sudo rm -rf /", " sudo reboot", "SUDO reboot", "rm -rf /tmp/x",
     "mkfs.ext4 /dev/sda", "cat a >/dev/sda", "/tmp/x/git push", ""}

CommandQueries == { [tool_name |-> "bash_exec", arg |-> c] : c \in CommandArguments }

CommandInit ==
    /\ config \in CommandConfigs
    /\ max_iterations = 1
    /\ AgentStart
    /\ strategy = "smart"
    /\ RouterStart
    /\ GateStart
    /\ NestedStart
    /\ ChannelStart
    /\ SessionStart
    /\ SelectStart
    /\ HandleStart

CommandNext == \E q \in CommandQueries : Decide(q)

CommandSpec == CommandInit /\ [][CommandNext]_vars

\* the command, as it was passed and whatever its case, holds the blocked entry
HoldsBlockedAnyCase(command, blocked) ==
    IsSubstring(lower(Text(blocked)), lower(Text(command)))

\* the first token of the command is an entry of the list
FirstTokenIn(command, list) ==
    \E a \in SeqRange(list) : FirstWord(command) = Text(a)

\* C36: in interactive mode a shell command is allowed if and only if it
\* contains no blocked substring, matches no dangerous pattern, and either
\* there is no allow-list or its first token is an entry of the allow-list; a
\* dangerous command is denied even with a listed first token, and the empty
\* command is denied under an allow-list.
C36_CommandAllowedIff ==
    \A i \in 1..Len(decisions) :
        LET d == decisions[i]
        IN ( d.cfg.mode = "interactive" /\ d.tool_name = "bash_exec" )
            => ( d.verdict.allowed
                   <=> /\ \A b \in SeqRange(d.cfg.blocked_commands) :
                              ~HoldsBlockedAnyCase(d.arg, b)
                       /\ ~MatchesDangerous(d.arg)
                       /\ \/ d.cfg.allowed_commands = <<>>
                          \/ FirstTokenIn(d.arg, d.cfg.allowed_commands) )

\* the parts of the claim the code keeps: a denied command stays denied when
\* its first token is listed, a dangerous command and, under an allow-list,
\* the empty command are denied, and a command whose first token is listed,
\* that is not dangerous and holds no blocked entry is allowed
CommandGateKept ==
    \A i \in 1..Len(decisions) :
        LET d == decisions[i]
        IN ( d.cfg.mode = "interactive" /\ d.tool_name = "bash_exec" )
            => /\ MatchesDangerous(d.arg) => ~d.verdict.allowed
               /\ ( d.arg = "" /\ d.cfg.allowed_commands # <<>> ) => ~d.verdict.allowed
               /\ ( /\ \A b \in SeqRange(d.cfg.blocked_commands) :
                            ~HoldsBlockedAnyCase(d.arg, b)
                     /\ ~MatchesDangerous(d.arg)
                     /\ \/ d.cfg.allowed_commands = <<>>
                        \/ FirstTokenIn(d.arg, d.cfg.allowed_commands) )
                       => d.verdict.allowed

----------------------------------------------------------------------------
(* Properties of strict mode *)

\* C37: in permission mode 'strict' every tool call that is executed, also one
\* of a tool whose requires_confirmation flag is False, was announced by a
\* confirm_request event and executed after a decision that allowed it.
C37_StrictConfirmsEveryCall ==
    config.mode = "strict" =>
        \A tc \in executed :
            /\ EventsOf("confirm_request", tc.id) # {}
            /\ tc.id \in approved

\* the same for the tools whose flag is False alone, with an installed callback
\* and nothing auto-approved; it fails as well, so the callback is not the cause
StrictConfirmsUnflagged ==
    ( config.mode = "strict" /\ confirm_callback /\ auto_allowed_tools = {} ) =>
        \A tc \in executed :
            ~ToolManagerRequiresConfirmation(tc.name) => tc.id \in approved

----------------------------------------------------------------------------
\* models/claude.py, models/openai_provider.py: the arguments of a tool call

\* the argument texts a model produces: a JSON object and a truncated one
ArgumentTexts == {"{\"path\": \"/tmp/a\"}", "{\"path\": "}

\* json.loads(text): the value of the object's parameter, or JSONDecodeError
json_loads(text) ==
    IF text = "{\"path\": \"/tmp/a\"}"
    THEN [raised |-> FALSE, arg |-> "/tmp/a"]
    ELSE [raised |-> TRUE, arg |-> "JSONDecodeError"]

ProviderForms ==
    { <<"claude", "call">>, <<"claude", "stream">>, <<"openai", "call">>, <<"openai", "stream">> }

\* the texts a form of a provider has to parse: ClaudeProvider.call takes
\* block.input, which the client library hands over as a dict
TextsFor(form) ==
    IF form = <<"claude", "call">>
    THEN { x \in ArgumentTexts : ~json_loads(x).raised }
    ELSE ArgumentTexts

\* try: json.loads(...) except json.JSONDecodeError: arguments = {}
GuardedLoads(text) ==
    IF json_loads(text).raised THEN [raised |-> FALSE, arg |-> NoArguments]
    ELSE json_loads(text)

\* the arguments of the ToolCall a form of a provider builds from text, or the
\* exception that leaves the provider
Arguments(form, text) ==
    CASE form = <<"claude", "call">>   -> json_loads(text)
      [] form = <<"claude", "stream">> -> GuardedLoads(text)
      [] form = <<"openai", "call">>   -> json_loads(text)
      [] form = <<"openai", "stream">> -> GuardedLoads(text)

\* str(e) of the JSONDecodeError
DecodeErrorText == "Expecting value"

\* the model answers with one tool call whose arguments arrive as text: the
\* provider builds the ToolCall, or its exception reaches the except clause of
\* the run
ProviderAnswers(t) ==
    /\ nextId <= MaxToolCalls
    /\ \E form \in ProviderForms : \E name \in {"file_read", "file_write"} :
         \E text \in TextsFor(form) :
            LET got == Arguments(form, text)
            IN IF got.raised
               THEN ModelRaises(t, DecodeErrorText)
               ELSE ModelResponse(t, <<[id |-> nextId, name |-> name, arg |-> got.arg]>>)

ParseNext ==
    \/ \E t \in Runners : StartRun(t)
    \/ \E t \in Tasks : LoopHead(t)
    \/ \E t \in Tasks : ProviderAnswers(t)
    \/ \E t \in Tasks : ModelResponse(t, <<>>)
    \/ \E t \in Tasks : Dispatch(t)
    \/ \E t \in Tasks : Execute(t)

ParseSpec == Init /\ [][ParseNext]_vars

\* C38: a model response whose tool-call arguments cannot be parsed does not
\* end the run with an error event, with either provider and in the streaming
\* and the non-streaming form alike: the tool call reaches the loop with empty
\* arguments and a failed tool result is appended for it.
C38_UnparseableArgumentsAreToolFailure ==
    \A t \in Tasks : \A i \in 1..Len(events[t]) :
        ~( events[t][i].type = "error" /\ events[t][i].content = DecodeErrorText )

\* what the guarded forms do: a tool call with empty arguments that was
\* executed failed, and its failed result is in the history
EmptyArgumentsFail ==
    \A tc \in executed :
        tc.arg = NoArguments
            => /\ \A e \in EventsOf("tool_result", tc.id) : e.content = "failure"
               /\ \E k \in 1..Len(messages) :
                     messages[k].role = "tool" /\ messages[k].tool_call_id = tc.id

----------------------------------------------------------------------------
(* Properties of a failing capability *)

\* the step of task t that ends the execution of its current tool call leaves
\* a tool message for it at the end of the history and moves the loop on to the
\* next tool call or to the head of the while loop
LoopSurvives(t) ==
    ( loop[t].pc \in {"execute", "delegated"} /\ loop'[t].pc \notin {"execute", "delegated"} )
        => /\ Len(messages') = Len(messages) + 1
           /\ Last(messages').role = "tool"
           /\ Last(messages').tool_call_id = Current(t).id
           /\ loop'[t].pc \in {"dispatch", "loop_head"}
           /\ loop'[t].outcome = loop[t].outcome

\* C39: a capability failure never aborts the turn, in the primary loop and in
\* a nested loop alike: the loop that made the invocation gets a failed tool
\* result for it and goes on; a nested loop whose model asked for a tool is not
\* ended by that invocation.
C39_FailureNeverAbortsTurn ==
    [][/\ \A t \in Tasks : LoopSurvives(t)
       /\ NestedToolCallsHandled => ( sub'.pc # "idle" /\ Len(returned') = Len(returned) )
      ]_vars

\* the primary loop's part of C39: whatever a tool returns, Agent.run appends
\* the tool message and goes on
PrimaryLoopSurvivesFailure == [][\A t \in Tasks : LoopSurvives(t)]_vars

----------------------------------------------------------------------------
(* Properties of the auto-approved set *)

\* the confirm_response frames that are about to be received
FramesAtHand ==
    { Head(inbox[c]) : c \in { d \in Tasks : Receiving(d) } }

\* a frame at hand answers the pending confirmation of a call of tool name
\* with allow_all
AnsweredAllowAll(name) ==
    \E f \in FramesAtHand :
        /\ f.type = "confirm_response" /\ f.action = "allow_all"
        /\ f.id \in DOMAIN pending_confirmations
        /\ pending_confirmations[f.id] = "pending"
        /\ name \in NamesOf(f.id)

\* C40: the auto-approved set only gains the name of the tool whose pending
\* confirmation is answered with allow_all, and a decision for an id that is
\* not in the dict of pending confirmations changes no state of the agent.
C40_OnlyAnsweredToolIsAutoApproved ==
    [][/\ \A name \in auto_allowed_tools' \ auto_allowed_tools : AnsweredAllowAll(name)
       /\ \A c \in Tasks :
            ( /\ Receiving(c)
              /\ Head(inbox[c]).type = "confirm_response"
              /\ Head(inbox[c]).id \notin DOMAIN pending_confirmations
              /\ inbox'[c] # inbox[c] /\ Len(inbox'[c]) < Len(inbox[c]) )
                => UNCHANGED agentVars
      ]_vars

\* the second half of C40 alone: a decision for an id that is not in the dict
\* changes no state of the agent
UnknownIdChangesNothing ==
    [][\A c \in Tasks :
            ( /\ Receiving(c)
              /\ Head(inbox[c]).type = "confirm_response"
              /\ Head(inbox[c]).id \notin DOMAIN pending_confirmations
              /\ inbox'[c] # inbox[c] /\ Len(inbox'[c]) < Len(inbox[c]) )
                => UNCHANGED agentVars
      ]_vars

====
